---- MODULE Spec2Model ----
(***************************************************************************)
(* ServiceBook Pros backend: the job lifecycle handlers (POST /jobs,       *)
(* PUT /jobs/:id, POST /service_history) over the jobs and service_history *)
(* tables, and the WebSocket broadcaster (broadcast, wss.on('connection')).*)
(*                                                                         *)
(* Granularity.  Node runs a handler without interruption between two      *)
(* awaits, and PostgreSQL executes one statement atomically.  One action   *)
(* is therefore one SQL statement together with the handler code that      *)
(* runs on its result up to the next statement (or to the end of the       *)
(* handler).  Handlers of different requests interleave at the awaits.     *)
(*                                                                         *)
(* Values.  Every column value and body field is a string; "null" is SQL   *)
(* NULL / JS null and "undefined" a field missing from the request body.   *)
(* result.rows is a sequence of rows; rows[0] of an empty result is        *)
(* JS undefined.                                                           *)
(***************************************************************************)
EXTENDS Integers, Sequences, FiniteSets, TLC

\* ---------------------------------------------------------------- bounds
NumReqs == 2        \* requests in flight at once
MaxOps  == 2        \* requests started in one behaviour of Spec
SeqOps  == 3        \* requests started in one behaviour of SpecSeq
WsOps   == 4        \* requests and connections started in one behaviour of SpecWs
NumObs  == 2        \* WebSocket clients that may connect
MaxJobs == 2        \* job ids the SERIAL sequence hands out

Reqs   == 1..NumReqs
Obs    == 1..NumObs
JobIds == 1..MaxJobs

Undefined == "undefined"
Null      == "null"

\* validStatuses of POST /jobs, and the CHECK constraint of jobs.status
Statuses == {"scheduled", "in_progress", "completed", "cancelled"}

\* the columns PUT /jobs/:id can set
PatchFields == {"customer_id", "technician_id", "status", "scheduled_time",
                "start_time", "end_time", "notes"}

VARIABLES
  jobs,        \* table jobs: job id -> row
  nextJobId,   \* the SERIAL sequence of jobs.id
  history,     \* table service_history: a set of rows
  nextHistId,  \* the SERIAL sequence of service_history.id
  req,         \* per request slot: the handler's position, locals and outcome
  clients,     \* wss.clients in insertion order (a JS Set iterates in that order)
  readyState,  \* readyState of each client socket
  inbox,       \* what each observer has received, in order
  nops,        \* requests and connections started so far
  items,       \* table pricebook_items: item id -> row
  versions,    \* table pricebook_item_versions: a set of rows
  nextVersionId, \* the SERIAL sequence of pricebook_item_versions.id
  now,         \* the clock NOW() reads
  calc,        \* per request slot: a pricing request's position, locals and outcome
  invoices,    \* table invoices: invoice id -> row
  nextInvoiceId, \* the SERIAL sequence of invoices.id
  payments,    \* table payments: a set of rows
  nextPaymentId, \* the SERIAL sequence of payments.id
  users,       \* table users: user id -> row
  nextUserId,  \* the SERIAL sequence of users.id
  nextSecret,  \* the secrets speakeasy.generateSecret has handed out so far
  auth,        \* per request slot: an auth request's position, locals and outcome
  registered,  \* the registrations that answered 201: email, password, user id
  tokens       \* the JWT payloads signed so far

vars == <<jobs, nextJobId, history, nextHistId, req, clients, readyState, inbox, nops,
          items, versions, nextVersionId, now, calc,
          invoices, nextInvoiceId, payments, nextPaymentId,
         users, nextUserId, nextSecret, auth, registered, tokens>>
dbVars == <<jobs, nextJobId, history, nextHistId>>
wsVars == <<clients, readyState, inbox>>
catVars == <<items, versions, nextVersionId, now, calc>>
finVars == <<invoices, nextInvoiceId, payments, nextPaymentId>>
authVars == <<users, nextUserId, nextSecret, auth, registered, tokens>>

\* ------------------------------------------------------------- JS helpers
\* JS truthiness of a body field (a missing or null field is falsy)
Truthy(v) == v \notin {Undefined, Null, ""}

\* the JS expression  v || null
OrNull(v) == IF Truthy(v) THEN v ELSE Null

\* node-postgres sends undefined as NULL; COALESCE($n, col) keeps col on NULL
CoalesceOverwrite(p, old) == IF p = Undefined THEN Null ELSE p
Coalesce(p, old) == IF p \in {Undefined, Null} THEN old ELSE p

EmptyBody == [f \in PatchFields |-> Undefined]

\* ------------------------------------------------------------ the tables
JobRow(id, c, t, s, st, n) ==
  [id |-> id, customer_id |-> c, technician_id |-> t, status |-> s,
   scheduled_time |-> st, start_time |-> Null, end_time |-> Null, notes |-> n]

\* UPDATE jobs SET col = COALESCE($n, col), ... : the row after the statement
ApplyPatchGuarded(row, b) ==
  [id             |-> row.id,
   customer_id    |-> Coalesce(b.customer_id, row.customer_id),
   technician_id  |-> Coalesce(b.technician_id, row.technician_id),
   status         |-> IF row.status = "cancelled" THEN row.status
                      ELSE Coalesce(b.status, row.status),
   scheduled_time |-> Coalesce(b.scheduled_time, row.scheduled_time),
   start_time     |-> Coalesce(b.start_time, row.start_time),
   end_time       |-> Coalesce(b.end_time, row.end_time),
   notes          |-> Coalesce(b.notes, row.notes)]
ApplyPatch(row, b) ==
  [id             |-> row.id,
   customer_id    |-> Coalesce(b.customer_id, row.customer_id),
   technician_id  |-> Coalesce(b.technician_id, row.technician_id),
   status         |-> Coalesce(b.status, row.status),
   scheduled_time |-> Coalesce(b.scheduled_time, row.scheduled_time),
   start_time     |-> Coalesce(b.start_time, row.start_time),
   end_time       |-> Coalesce(b.end_time, row.end_time),
   notes          |-> Coalesce(b.notes, row.notes)]

\* CHECK (status IN (...)) of table jobs
StatusCheckNone(row) == TRUE
StatusCheck(row) == row.status \in Statuses

\* SELECT id FROM service_history WHERE job_id = $1
HistoryOf(id) == {h \in history : h.job_id = id}

\* rows an automatic insert of PUT /jobs/:id made
AutoHistoryOf(id) == {h \in HistoryOf(id) : h.auto}

\* ----------------------------------------------------------- a request
IdleReq ==
  [op |-> "none", pc |-> "idle", id |-> 0, body |-> EmptyBody,
   prevStatus |-> Null, rows |-> <<>>,
   resp |-> <<>>, emitted |-> <<>>, log |-> <<>>, unhandled |-> FALSE,
   \* history of the request, kept for the properties:
   before |-> <<>>,        \* the job row as the UPDATE statement found it
   hadHistory |-> FALSE,   \* the job had a service_history row at the UPDATE
   committed |-> FALSE,    \* the INSERT or UPDATE statement wrote a row
   inserted |-> FALSE,     \* this request inserted a service_history row
   histFailed |-> FALSE,   \* the history check or insert raised
   sendFailed |-> 0]       \* the client whose send raised (0: none)

Free(r) == req[r].pc \in {"idle", "done"}

\* the slots once a request arrives in slot r with handler state h: the outcome
\* of a finished request is kept until the next request arrives
Arrive(r, h) ==
  [q \in Reqs |-> IF q = r THEN h ELSE IF Free(q) THEN IdleReq ELSE req[q]]

\* res.status(code).json(body).  Express raises ERR_HTTP_HEADERS_SENT when a
\* response was already sent; the only second call is the one in the handler's
\* catch block, where the error leaves the async handler as a rejection.
ResJson(h, code, body) ==
  IF h.resp = <<>>
  THEN [h EXCEPT !.resp = <<[code |-> code, body |-> body]>>]
  ELSE [h EXCEPT !.unhandled = TRUE]

\* console.error(...)
Log(h, what) == [h EXCEPT !.log = Append(@, what)]

\* the outer catch block of a handler
Catch500(h) == ResJson(Log(h, "error"), 500, <<>>)

\* ------------------------------------------------------- the broadcaster
\* positions of wss.clients whose socket is OPEN
OpenIdx == {i \in 1..Len(clients) : readyState[clients[i]] = "OPEN"}

\* choices of the client whose send raises (0: no send raises)
FailChoices == OpenIdx \cup {0}

\* the clients client.send(message) completed for: forEach visits the clients
\* in order and an exception leaves the loop
Receivers(failAt) ==
  {clients[i] : i \in {j \in OpenIdx : failAt = 0 \/ j < failAt}}

\* JSON.stringify({type, job}): a key whose value is undefined is dropped
Message(type, rows) ==
  IF rows = <<>> THEN [type |-> type, keys |-> {"type"}, job |-> <<>>]
  ELSE [type |-> type, keys |-> {"type", "job"}, job |-> rows]

WelcomeMessage == [type |-> "welcome", keys |-> {"type", "message"}, job |-> <<>>]

\* JSON.stringify({type: 'invoice.created', invoice}) and ({type: 'payment.created', payment})
InvoiceMessage(rows) ==
  [type |-> "invoice.created", keys |-> {"type", "invoice"}, invoice |-> rows]
PaymentMessage(rows) ==
  [type |-> "payment.created", keys |-> {"type", "payment"}, payment |-> rows]

\* the object a handler hands to broadcast for the event type it names
EventAsJob(type, rows) == Message(type, rows)
EventOf(type, rows) ==
  CASE type = "invoice.created" -> InvoiceMessage(rows)
    [] type = "payment.created" -> PaymentMessage(rows)
    [] OTHER -> Message(type, rows)

\* inbox after broadcast(data)
Deliver(msg, failAt) ==
  [o \in Obs |-> IF o \in Receivers(failAt) THEN Append(inbox[o], msg) ELSE inbox[o]]

\* broadcast({type, job}) as the handler sees it: the call is recorded, and an
\* exception of a send propagates to the caller
PublishNone(h, type) == h
Publish(h, type) == [h EXCEPT !.emitted = Append(@, EventOf(type, h.rows))]

\* res.status(code).json(rows[0]); broadcast(...); and the catch block around them
PublishThenRespond(h, code, type, failAt) ==
  LET h1 == Publish(h, type) IN
  IF failAt = 0 THEN ResJson(h1, code, h1.rows)
  ELSE Catch500([h1 EXCEPT !.sendFailed = clients[failAt]])
RespondThenPublish(h, code, type, failAt) ==
  LET h1 == Publish(ResJson(h, code, h.rows), type) IN
  IF failAt = 0 THEN h1
  ELSE Catch500([h1 EXCEPT !.sendFailed = clients[failAt]])

Done(h) == [h EXCEPT !.pc = "done"]

\* the event a finished PUT /jobs/:id publishes, and the inbox after it
FinishPut(h, failAt) == Done(RespondThenPublish(h, 200, "job.updated", failAt))

\* ------------------------------------------------------------ POST /jobs
\* the row INSERT INTO jobs ... RETURNING * yields
NewJobRow(b) ==
  JobRow(nextJobId, b.customer_id, OrNull(b.technician_id), b.status,
         OrNull(b.scheduled_time), OrNull(b.notes))

PostJobs(r, b, dbOk, failAt) ==
  /\ UNCHANGED <<authVars, catVars, finVars>>
  /\ Free(r)
  /\ nops' = nops + 1
  /\ LET h0 == [IdleReq EXCEPT !.op = "postJobs", !.body = b] IN
     IF ~Truthy(b.customer_id) \/ ~Truthy(b.status) \/ b.status \notin Statuses
     THEN /\ req' = Arrive(r, Done(ResJson(h0, 400, <<>>)))
          /\ UNCHANGED <<dbVars, wsVars>>
     ELSE IF ~dbOk \/ nextJobId > MaxJobs
     THEN /\ req' = Arrive(r, Done(Catch500(h0)))
          /\ UNCHANGED <<dbVars, wsVars>>
     ELSE LET row == NewJobRow(b)
              h1  == [h0 EXCEPT !.rows = <<row>>, !.committed = TRUE]
          IN /\ jobs' = (row.id :> row) @@ jobs
             /\ nextJobId' = nextJobId + 1
             /\ req' = Arrive(r,
                           Done(RespondThenPublish(h1, 201, "job.created", failAt)))
             /\ inbox' = Deliver(Message("job.created", <<row>>), failAt)
             /\ UNCHANGED <<history, nextHistId, clients, readyState>>

\* -------------------------------------------------------- PUT /jobs/:id
\* SELECT id, customer_id, status FROM jobs WHERE id = $1
SelectJob(id) == IF id \in DOMAIN jobs THEN <<jobs[id]>> ELSE <<>>

\* existingJob.rowCount === 0
NotFoundNever(rows) == FALSE
NotFound(rows) == Len(rows) = 0

\* status && status === 'completed' && prevStatus !== 'completed'
NeedsHistoryAnyCompleted(status, prevStatus) == Truthy(status) /\ status = "completed"
NeedsHistory(status, prevStatus) ==
  Truthy(status) /\ status = "completed" /\ prevStatus # "completed"

\* existingHistory.rowCount === 0
HistoryAbsentAlways(rows) == TRUE
HistoryAbsent(rows) == Cardinality(rows) = 0

\* the inner catch block: console.error('Failed to record service history:', ...)
HistoryCatchRethrow(h, failAt) ==
  Done(Catch500([h EXCEPT !.histFailed = TRUE]))
HistoryCatch(h, failAt) ==
  FinishPut(Log([h EXCEPT !.histFailed = TRUE], "history"), failAt)

\* first statement: load the job, 404 when it is absent
PutJobSelect(r, id, b, dbOk) ==
  /\ UNCHANGED <<authVars, catVars, finVars>>
  /\ Free(r)
  /\ nops' = nops + 1
  /\ LET h0   == [IdleReq EXCEPT !.op = "putJob", !.id = id, !.body = b]
         rows == SelectJob(id)
     IN req' = Arrive(r,
          IF ~dbOk THEN Done(Catch500(h0))
          ELSE IF NotFound(rows) THEN Done(ResJson(h0, 404, <<>>))
          ELSE IF rows = <<>> THEN Done(Catch500(h0))   \* rows[0].status of undefined
          ELSE [h0 EXCEPT !.prevStatus = rows[1].status, !.pc = "updateJob"])
  /\ UNCHANGED <<dbVars, wsVars>>

\* second statement: UPDATE jobs ... RETURNING *, then either the history
\* branch or the response and the broadcast
PutJobUpdate(r, dbOk, failAt) ==
  /\ UNCHANGED <<authVars, catVars, finVars>>
  /\ req[r].pc = "updateJob"
  /\ LET h   == req[r]
         hit == h.id \in DOMAIN jobs
         row == IF hit THEN ApplyPatch(jobs[h.id], h.body) ELSE JobRow(0, Null, Null, Null, Null, Null)
     IN IF ~dbOk \/ (hit /\ ~StatusCheck(row))
        THEN /\ req' = [req EXCEPT ![r] = Done(Catch500(h))]
             /\ UNCHANGED <<dbVars, wsVars, nops>>
        ELSE LET h1 == [h EXCEPT !.rows = IF hit THEN <<row>> ELSE <<>>,
                                 !.before = SelectJob(h.id),
                                 !.hadHistory = HistoryOf(h.id) # {},
                                 !.committed = hit]
             IN /\ jobs' = IF hit THEN [jobs EXCEPT ![h.id] = row] ELSE jobs
                /\ IF NeedsHistory(h.body.status, h.prevStatus)
                   THEN /\ req' = [req EXCEPT ![r] = [h1 EXCEPT !.pc = "selectHistory"]]
                        /\ UNCHANGED inbox
                   ELSE /\ req' = [req EXCEPT ![r] = FinishPut(h1, failAt)]
                        /\ inbox' = Deliver(Message("job.updated", h1.rows), failAt)
                /\ UNCHANGED <<nextJobId, history, nextHistId, clients, readyState, nops>>

\* third statement: SELECT id FROM service_history WHERE job_id = $1
PutJobSelectHistory(r, dbOk, failAt) ==
  /\ UNCHANGED <<authVars, catVars, finVars>>
  /\ req[r].pc = "selectHistory"
  /\ LET h == req[r] IN
     IF dbOk /\ HistoryAbsent(HistoryOf(h.id)) /\ h.rows # <<>>
     THEN /\ req' = [req EXCEPT ![r] = [h EXCEPT !.pc = "insertHistory"]]
          /\ UNCHANGED inbox
     ELSE /\ req' = [req EXCEPT ![r] =
                IF dbOk /\ ~HistoryAbsent(HistoryOf(h.id))
                THEN FinishPut(h, failAt)
                ELSE HistoryCatch(h, failAt)]   \* the query failed, or updatedJob.customer_id of undefined
          /\ inbox' = Deliver(Message("job.updated", h.rows), failAt)
  /\ UNCHANGED <<dbVars, clients, readyState, nops>>

\* a reading of the clock as a TIMESTAMP value
Timestamp(t) == ToString(t)

\* the row INSERT INTO service_history (...) VALUES ($1, $2, NOW(), $3) adds
AutoHistoryRowStoredNotes(h) ==
  [id |-> nextHistId, job_id |-> h.id, customer_id |-> h.rows[1].customer_id,
   performed_at |-> Timestamp(now), notes |-> h.rows[1].notes, auto |-> TRUE]
AutoHistoryRow(h) ==
  [id |-> nextHistId, job_id |-> h.id, customer_id |-> h.rows[1].customer_id,
   performed_at |-> Timestamp(now), notes |-> OrNull(h.body.notes), auto |-> TRUE]

\* fourth statement: the insert (job_id REFERENCES jobs), then the response
PutJobInsertHistory(r, dbOk, failAt) ==
  /\ UNCHANGED <<authVars, catVars, finVars>>
  /\ req[r].pc = "insertHistory"
  /\ LET h == req[r] IN
     IF dbOk /\ h.id \in DOMAIN jobs
     THEN /\ history' = history \cup {AutoHistoryRow(h)}
          /\ nextHistId' = nextHistId + 1
          /\ req' = [req EXCEPT ![r] = FinishPut([h EXCEPT !.inserted = TRUE], failAt)]
     ELSE /\ req' = [req EXCEPT ![r] = HistoryCatch(h, failAt)]
          /\ UNCHANGED <<history, nextHistId>>
  /\ inbox' = Deliver(Message("job.updated", req[r].rows), failAt)
  /\ UNCHANGED <<jobs, nextJobId, clients, readyState, nops>>

\* ------------------------------------------------- POST /service_history
PostHistory(r, jobId, customer, performedAt, notes, dbOk) ==
  /\ UNCHANGED <<authVars, catVars, finVars>>
  /\ Free(r)
  /\ nops' = nops + 1
  /\ LET h0 == [IdleReq EXCEPT !.op = "postHistory", !.id = jobId] IN
     IF jobId = 0 \/ ~Truthy(customer) \/ ~Truthy(performedAt)
     THEN /\ req' = Arrive(r, Done(ResJson(h0, 400, <<>>)))
          /\ UNCHANGED <<history, nextHistId>>
     ELSE IF ~dbOk \/ jobId \notin DOMAIN jobs
     THEN /\ req' = Arrive(r, Done(Catch500(h0)))
          /\ UNCHANGED <<history, nextHistId>>
     ELSE LET row == [id |-> nextHistId, job_id |-> jobId, customer_id |-> customer,
                      performed_at |-> performedAt, notes |-> OrNull(notes),
                      auto |-> FALSE]
          IN /\ history' = history \cup {row}
             /\ nextHistId' = nextHistId + 1
             /\ req' = Arrive(r,
                          Done(ResJson([h0 EXCEPT !.committed = TRUE], 201, <<row>>)))
  /\ UNCHANGED <<jobs, nextJobId, wsVars>>

\* ------------------------------------------------------ WebSocket clients
\* a client connects: ws adds the socket to wss.clients and emits 'connection',
\* whose listener sends the welcome message
ConnectSilent(o) ==
  /\ UNCHANGED <<authVars, catVars, finVars>>
  /\ readyState[o] = "NEW"
  /\ nops' = nops + 1
  /\ clients' = Append(clients, o)
  /\ readyState' = [readyState EXCEPT ![o] = "OPEN"]
  /\ UNCHANGED <<dbVars, req, inbox>>
Connect(o) ==
  /\ UNCHANGED <<authVars, catVars, finVars>>
  /\ readyState[o] = "NEW"
  /\ nops' = nops + 1
  /\ clients' = Append(clients, o)
  /\ readyState' = [readyState EXCEPT ![o] = "OPEN"]
  /\ inbox' = [inbox EXCEPT ![o] = Append(@, WelcomeMessage)]
  /\ UNCHANGED <<dbVars, req>>

\* a closing handshake starts: the socket stays in wss.clients, not OPEN
CloseStart(o) ==
  /\ UNCHANGED <<authVars, catVars, finVars>>
  /\ readyState[o] = "OPEN"
  /\ readyState' = [readyState EXCEPT ![o] = "CLOSING"]
  /\ UNCHANGED <<dbVars, req, clients, inbox, nops>>

\* the socket closes: ws removes it from wss.clients
CloseEnd(o) ==
  /\ UNCHANGED <<authVars, catVars, finVars>>
  /\ readyState[o] \in {"OPEN", "CLOSING"}
  /\ readyState' = [readyState EXCEPT ![o] = "CLOSED"]
  /\ clients' = SelectSeq(clients, LAMBDA c : c # o)
  /\ UNCHANGED <<dbVars, req, inbox, nops>>

\* ------------------------------------------------------ DELETE /jobs/:id
\* DELETE FROM jobs WHERE id = $1; service_history, invoices and (through
\* them) payments go with the job: ON DELETE CASCADE
DeleteJob(r, id, dbOk) ==
  /\ Free(r)
  /\ nops' = nops + 1
  /\ UNCHANGED <<authVars, catVars, wsVars, nextJobId, nextHistId, nextInvoiceId, nextPaymentId>>
  /\ LET h0 == [IdleReq EXCEPT !.op = "deleteJob", !.id = id] IN
     IF ~dbOk
     THEN /\ req' = Arrive(r, Done(Catch500(h0)))
          /\ UNCHANGED <<jobs, history, invoices, payments>>
     ELSE IF id \notin DOMAIN jobs
     THEN /\ req' = Arrive(r, Done(ResJson(h0, 404, <<>>)))
          /\ UNCHANGED <<jobs, history, invoices, payments>>
     ELSE LET gone == {i \in DOMAIN invoices : invoices[i].job_id = id} IN
          /\ jobs' = [j \in DOMAIN jobs \ {id} |-> jobs[j]]
          /\ history' = {x \in history : x.job_id # id}
          /\ invoices' = [i \in DOMAIN invoices \ gone |-> invoices[i]]
          /\ payments' = {x \in payments : x.invoice_id \notin gone}
          /\ req' = Arrive(r, Done(ResJson([h0 EXCEPT !.committed = TRUE], 204, <<>>)))

\* ------------------------------------------------- invoices and payments
\* an amount missing from the body (undefined or null: amount == null)
NoAmount == -1

InvoiceStatuses == {"draft", "sent", "paid", "overdue", "cancelled"}

\* job_id and invoice_id 0 stand for a missing (falsy) id
InvoiceBody(job, amount, status) == [job_id |-> job, amount |-> amount, status |-> status]
PaymentBody(invoice, amount, method) ==
  [invoice_id |-> invoice, amount |-> amount, method |-> method]

InvoiceRow(job, amount, status) ==
  [id |-> nextInvoiceId, job_id |-> job, amount |-> amount, status |-> status, due_at |-> Null]

\* INSERT INTO invoices ... RETURNING *, the response and the broadcast
InsertInvoice(r, h, arriving, job, amount, status, failAt) ==
  LET row == InvoiceRow(job, amount, status)
      h1  == [h EXCEPT !.rows = <<row>>, !.committed = TRUE]
      h2  == Done(RespondThenPublish(h1, 201, "invoice.created", failAt))
  IN /\ invoices' = (row.id :> row) @@ invoices
     /\ nextInvoiceId' = nextInvoiceId + 1
     /\ req' = IF arriving THEN Arrive(r, h2) ELSE [req EXCEPT ![r] = h2]
     /\ inbox' = Deliver(InvoiceMessage(<<row>>), failAt)

\* POST /jobs/:id/invoice up to the result of its first statement
PostJobInvoiceSelect(r, id, b, dbOk) ==
  /\ Free(r)
  /\ nops' = nops + 1
  /\ LET h0 == [IdleReq EXCEPT !.op = "postJobInvoice", !.id = id, !.body = b]
         invoiceStatus == IF Truthy(b.status) THEN b.status ELSE "draft"
     IN req' = Arrive(r,
          IF b.amount = NoAmount \/ invoiceStatus \notin InvoiceStatuses
          THEN Done(ResJson(h0, 400, <<>>))
          ELSE IF ~dbOk THEN Done(Catch500(h0))
          ELSE IF NotFound(SelectJob(id)) THEN Done(ResJson(h0, 404, <<>>))
          ELSE [h0 EXCEPT !.pc = "insertInvoice"])
  /\ UNCHANGED <<authVars, dbVars, wsVars, catVars, finVars>>

\* its second statement (job_id REFERENCES jobs)
PostJobInvoiceInsert(r, dbOk, failAt) ==
  /\ req[r].pc = "insertInvoice"
  /\ UNCHANGED <<authVars, dbVars, catVars, clients, readyState, payments, nextPaymentId, nops>>
  /\ LET h == req[r] IN
     IF ~dbOk \/ h.id \notin DOMAIN jobs
     THEN /\ req' = [req EXCEPT ![r] = Done(Catch500(h))]
          /\ UNCHANGED <<invoices, nextInvoiceId, inbox>>
     ELSE InsertInvoice(r, h, FALSE, h.id, h.body.amount,
                        IF Truthy(h.body.status) THEN h.body.status ELSE "draft", failAt)

\* POST /invoices
PostInvoices(r, b, dbOk, failAt) ==
  /\ Free(r)
  /\ nops' = nops + 1
  /\ UNCHANGED <<authVars, dbVars, catVars, clients, readyState, payments, nextPaymentId>>
  /\ LET h0 == [IdleReq EXCEPT !.op = "postInvoices", !.id = b.job_id, !.body = b] IN
     IF b.job_id = 0 \/ b.amount = NoAmount \/ ~Truthy(b.status)
        \/ b.status \notin InvoiceStatuses
     THEN /\ req' = Arrive(r, Done(ResJson(h0, 400, <<>>)))
          /\ UNCHANGED <<invoices, nextInvoiceId, inbox>>
     ELSE IF ~dbOk \/ b.job_id \notin DOMAIN jobs
     THEN /\ req' = Arrive(r, Done(Catch500(h0)))
          /\ UNCHANGED <<invoices, nextInvoiceId, inbox>>
     ELSE InsertInvoice(r, h0, TRUE, b.job_id, b.amount, b.status, failAt)

\* POST /payments (invoice_id REFERENCES invoices)
PostPayments(r, b, dbOk, failAt) ==
  /\ Free(r)
  /\ nops' = nops + 1
  /\ UNCHANGED <<authVars, dbVars, catVars, clients, readyState, invoices, nextInvoiceId>>
  /\ LET h0 == [IdleReq EXCEPT !.op = "postPayments", !.id = b.invoice_id, !.body = b] IN
     IF b.invoice_id = 0 \/ b.amount = NoAmount \/ ~Truthy(b.method)
     THEN /\ req' = Arrive(r, Done(ResJson(h0, 400, <<>>)))
          /\ UNCHANGED <<payments, nextPaymentId, inbox>>
     ELSE IF ~dbOk \/ b.invoice_id \notin DOMAIN invoices
     THEN /\ req' = Arrive(r, Done(Catch500(h0)))
          /\ UNCHANGED <<payments, nextPaymentId, inbox>>
     ELSE LET row == [id |-> nextPaymentId, invoice_id |-> b.invoice_id,
                      amount |-> b.amount, method |-> b.method]
              h1  == [h0 EXCEPT !.rows = <<row>>, !.committed = TRUE]
          IN /\ payments' = payments \cup {row}
             /\ nextPaymentId' = nextPaymentId + 1
             /\ req' = Arrive(r, Done(RespondThenPublish(h1, 201, "payment.created", failAt)))
             /\ inbox' = Deliver(PaymentMessage(<<row>>), failAt)

\* --------------------------------------------------- JS numbers (doubles)
\* A finite double v >= 0 is held exactly as the natural number v * 2^52,
\* written in base 2^10, lowest digit first, without high zero digits (<<>>
\* is 0).  Every double that is 0 or >= 1 is such a number with at most 53
\* bits from its highest set bit down.  A JS number is that, or NaN.  The
\* operators below are exact for amounts below 2^20.
Base == 1024

RECURSIVE DigitsOfInt(_)
DigitsOfInt(n) == IF n = 0 THEN <<>> ELSE <<n % Base>> \o DigitsOfInt(n \div Base)

RECURSIVE Trim(_)
Trim(a) == IF a # <<>> /\ a[Len(a)] = 0 THEN Trim(SubSeq(a, 1, Len(a) - 1)) ELSE a

\* a * k + c for naturals k, c below 2^20
RECURSIVE MulSmall(_, _, _)
MulSmall(a, k, c) ==
  IF a = <<>> THEN DigitsOfInt(c)
  ELSE LET t == a[1] * k + c IN <<t % Base>> \o MulSmall(Tail(a), k, t \div Base)

\* a + b + c
RECURSIVE AddDigits(_, _, _)
AddDigits(a, b, c) ==
  IF a = <<>> /\ b = <<>> THEN DigitsOfInt(c)
  ELSE LET x == IF a = <<>> THEN 0 ELSE a[1]
           y == IF b = <<>> THEN 0 ELSE b[1]
           t == x + y + c
       IN <<t % Base>> \o AddDigits(IF a = <<>> THEN a ELSE Tail(a),
                                    IF b = <<>> THEN b ELSE Tail(b), t \div Base)

\* quotient and remainder of a by d, for a natural d below 2^21
RECURSIVE DivRem(_, _)
DivRem(a, d) ==
  IF a = <<>> THEN [q |-> <<>>, r |-> 0]
  ELSE LET hi == DivRem(Tail(a), d)
           t  == hi.r * Base + a[1]
       IN [q |-> <<t \div d>> \o hi.q, r |-> t % d]

\* a * 2^52
Shl52(a) == IF a = <<>> THEN <<>> ELSE MulSmall(<<0, 0, 0, 0, 0>> \o a, 4, 0)

\* the number of bits of a
BitLen(a) ==
  LET t == Trim(a) IN
  IF t = <<>> THEN 0
  ELSE 10 * (Len(t) - 1) + CHOOSE b \in 1..10 : 2^(b - 1) <= t[Len(t)] /\ t[Len(t)] < 2^b

\* a / d rounded to a whole number, to nearest, ties to even
DivRound(a, d) ==
  LET x  == DivRem(a, d)
      q  == Trim(x.q)
      up == 2 * x.r > d \/ (2 * x.r = d /\ q # <<>> /\ q[1] % 2 = 1)
  IN IF up THEN AddDigits(q, <<>>, 1) ELSE q

\* round to nearest, ties to even, to 53 significant bits: the rounding of
\* every arithmetic operation on doubles
Round53(a) ==
  LET n == BitLen(a) IN
  IF n <= 53 THEN a ELSE MulSmall(DivRound(a, 2^(n - 53)), 2^(n - 53), 0)

NaN == [nan |-> TRUE, n |-> <<>>]
Num(a) == [nan |-> FALSE, n |-> Trim(a)]

\* the double of a whole number
FromInt(k) == Num(Shl52(DigitsOfInt(k)))

\* the double a decimal literal n/d with 1 <= n/d < 2 denotes (the quotient
\* then has 53 bits): the nearest double, ties to even
Literal(n, d) == Num(DivRound(Shl52(DigitsOfInt(n)), d))

\* x * k for a double x and a whole number k
TimesInt(x, k) == IF x.nan THEN NaN ELSE Num(Round53(MulSmall(x.n, k, 0)))

\* x + y
Plus(x, y) == IF x.nan \/ y.nan THEN NaN ELSE Num(Round53(AddDigits(x.n, y.n, 0)))

\* parseFloat of a NUMERIC(10,2) column: the amounts of the model are whole
\* numbers ("60.00"), which parseFloat reads exactly
ParseFloat(amount) == amount

\* ------------------------------------------------------- the price book
\* a quantity missing from a line (undefined or null: quantity == null)
NoQuantity == -1

\* an entry of req.body.items; item_id 0 stands for a missing (falsy) item_id
Line(item, q, tier) == [item_id |-> item, quantity |-> q, price_tier |-> tier]

ItemRow(id, lr, pc, tier) ==
  [id |-> id, name |-> "item", labour_rate |-> lr, parts_cost |-> pc, price_tier |-> tier]

VersionRow(id, item, at, lr, pc, tier) ==
  [id |-> id, item_id |-> item, effective_at |-> at, labour_rate |-> lr,
   parts_cost |-> pc, price_tier |-> tier]

\* CHECK (price_tier IN ('good','better','best')), NULL allowed
Tiers == {"good", "better", "best"}

\* property names every object literal inherits from Object.prototype
PrototypeKeys == {"constructor", "toString", "valueOf", "hasOwnProperty", "__proto__"}

\* markups[selectedTier] for markups = { good: 1.0, better: 1.15, best: 1.25 }
Markups(tier) ==
  CASE tier = "good"   -> [kind |-> "number", v |-> Literal(100, 100)]
    [] tier = "better" -> [kind |-> "number", v |-> Literal(115, 100)]
    [] tier = "best"   -> [kind |-> "number", v |-> Literal(125, 100)]
    [] tier \in PrototypeKeys -> [kind |-> "object", v |-> NaN]
    [] OTHER -> [kind |-> "undefined", v |-> NaN]

\* markups[selectedTier] || 1.0
MarkupFactor(tier) ==
  LET m == Markups(tier) IN
  IF m.kind = "undefined" THEN [kind |-> "number", v |-> Literal(100, 100)] ELSE m

\* baseUnit * markupFactor (an object or function as a factor gives NaN)
UnitPrice(baseUnit, factor) ==
  IF factor.kind = "number" THEN TimesInt(factor.v, baseUnit) ELSE NaN

\* JSON.stringify of a number: NaN is written as null
JsonNumber(x) == [null |-> x.nan, n |-> x.n]

\* SELECT ... FROM pricebook_items WHERE id = $1
SelectItem(id) == IF id \in DOMAIN items THEN <<items[id]>> ELSE <<>>

\* the rows WHERE item_id = $1 AND effective_at <= NOW()
VersionsOfItem(item, t) == {v \in versions : v.item_id = item}
EffectiveVersions(item, t) ==
  {v \in versions : v.item_id = item /\ v.effective_at <= t}

\* the rows ORDER BY effective_at DESC LIMIT 1 may return: PostgreSQL leaves
\* the order of rows with equal sort keys open
NewestVersions(item, t) ==
  {v \in versions : v.item_id = item
                    /\ \A w \in versions : w.item_id = item => w.effective_at <= v.effective_at}
LatestVersions(item, t) ==
  {v \in EffectiveVersions(item, t) :
     \A w \in EffectiveVersions(item, t) : w.effective_at <= v.effective_at}

\* a pricing request (POST /pricebook/calculate or POST /jobs/:id/estimate)
IdleCalc ==
  [op |-> "none", pc |-> "idle", jobId |-> 0, lines |-> <<>>, i |-> 0,
   pbItem |-> <<>>, total |-> FromInt(0), breakdown |-> <<>>,
   resp |-> <<>>, log |-> <<>>,
   \* per priced line, kept for the properties: the rates and tier used, the
   \* version row selected (<<>>: none), NOW() and the tables as the queries saw them
   trace |-> <<>>]

CalcFree(r) == calc[r].pc \in {"idle", "done"}

\* res.status(code).json({ error }) and res.json({ total_amount, items })
CalcError(h, code, error) ==
  [h EXCEPT !.pc = "done",
            !.resp = <<[code |-> code, error |-> error, job_id |-> 0,
                        total_amount |-> JsonNumber(FromInt(0)), items |-> <<>>]>>]

CalcResult(h) ==
  [h EXCEPT !.pc = "done",
            !.resp = <<[code |-> 200, error |-> "", job_id |-> h.jobId,
                        total_amount |-> JsonNumber(h.total), items |-> h.breakdown]>>]

CalcCatch500(h) == CalcError([h EXCEPT !.log = Append(@, "error")], 500, "Internal server error")

\* the loop head: the next entry is destructured and checked and its item
\* query is issued, or the loop has ended and the result is sent
CalcAdvance(h) ==
  IF h.i = Len(h.lines) THEN CalcResult(h)
  ELSE LET e == h.lines[h.i + 1] IN
       IF e.item_id = 0 \/ e.quantity = NoQuantity
       THEN CalcError(h, 400, "Each item must include item_id and quantity")
       ELSE [h EXCEPT !.i = h.i + 1, !.pc = "selectItem"]

\* POST /pricebook/calculate up to its first query
CalcStart(r, lines) ==
  /\ CalcFree(r)
  /\ nops' = nops + 1
  /\ LET h0 == [IdleCalc EXCEPT !.op = "calculate", !.lines = lines] IN
     calc' = [calc EXCEPT ![r] =
                IF Len(lines) = 0 THEN CalcError(h0, 400, "items array is required")
                ELSE CalcAdvance(h0)]
  /\ UNCHANGED <<authVars, dbVars, wsVars, req, finVars, items, versions, nextVersionId, now>>

\* the item query returns
CalcSelectItem(r, dbOk) ==
  /\ calc[r].op = "calculate"
  /\ calc[r].pc = "selectItem"
  /\ LET h    == calc[r]
         rows == SelectItem(h.lines[h.i].item_id)
     IN calc' = [calc EXCEPT ![r] =
          IF ~dbOk THEN CalcCatch500(h)
          ELSE IF rows = <<>>
          THEN CalcError(h, 400, "Pricebook item not found")
          ELSE [h EXCEPT !.pbItem = rows, !.pc = "selectVersion"]]
  /\ UNCHANGED <<authVars, dbVars, wsVars, req, finVars, items, versions, nextVersionId, now, nops>>

\* the line priced from the item row and the version rows (none or one)
PricedLine(e, pbItem, versionRows) ==
  LET labourRate  == IF versionRows = <<>> THEN pbItem.labour_rate
                     ELSE versionRows[1].labour_rate
      partsCost   == IF versionRows = <<>> THEN pbItem.parts_cost
                     ELSE versionRows[1].parts_cost
      defaultTier == IF versionRows # <<>> /\ Truthy(versionRows[1].price_tier)
                     THEN versionRows[1].price_tier ELSE pbItem.price_tier
      selectedTier == IF Truthy(e.price_tier) THEN e.price_tier
                      ELSE IF Truthy(defaultTier) THEN defaultTier ELSE "good"
      markupFactor == MarkupFactor(selectedTier)
      baseUnit     == ParseFloat(labourRate) + ParseFloat(partsCost)
      unitPrice    == UnitPrice(baseUnit, markupFactor)
  IN [labourRate |-> labourRate, partsCost |-> partsCost,
      selectedTier |-> selectedTier, markupFactor |-> markupFactor,
      unitPrice |-> unitPrice, lineTotal |-> TimesInt(unitPrice, e.quantity)]

\* the version query returns: the line is priced and the loop goes on
CalcSelectVersion(r, dbOk, versionRows) ==
  /\ calc[r].op = "calculate"
  /\ calc[r].pc = "selectVersion"
  /\ LET h == calc[r]
         e == h.lines[h.i]
         l == PricedLine(e, h.pbItem[1], versionRows)
     IN calc' = [calc EXCEPT ![r] =
          IF ~dbOk THEN CalcCatch500(h)
          ELSE CalcAdvance(
                 [h EXCEPT !.total = Plus(h.total, l.lineTotal),
                           !.breakdown = Append(@,
                              [item_id |-> e.item_id, name |-> h.pbItem[1].name,
                               quantity |-> e.quantity,
                               unit_price |-> JsonNumber(l.unitPrice),
                               markup_factor |-> l.markupFactor,
                               total_price |-> JsonNumber(l.lineTotal)]),
                           !.trace = Append(@,
                              [line |-> l, version |-> versionRows, asOf |-> now,
                               item |-> h.pbItem[1], versions |-> versions])])]
  /\ UNCHANGED <<authVars, dbVars, wsVars, req, finVars, items, versions, nextVersionId, now, nops>>

\* the results the version query may give at this moment
VersionResults(r) ==
  IF calc[r].pc # "selectVersion" THEN {}
  ELSE LET c == LatestVersions(calc[r].lines[calc[r].i].item_id, now) IN
       IF c = {} THEN {<<>>} ELSE {<<v>> : v \in c}

\* POST /jobs/:id/estimate up to its first query
EstStartStoring(r, jobId, lines) ==
  /\ CalcFree(r)
  /\ nops' = nops + 1
  /\ calc' = [calc EXCEPT ![r] =
                [IdleCalc EXCEPT !.op = "estimate", !.jobId = jobId, !.lines = lines,
                                 !.pc = "selectJob"]]
  /\ jobs' = [id \in DOMAIN jobs |->
                IF id = jobId THEN [jobs[id] EXCEPT !.notes = "estimated"] ELSE jobs[id]]
  /\ UNCHANGED <<authVars, nextJobId, history, nextHistId, wsVars, req, finVars,
                 items, versions, nextVersionId, now>>
EstStart(r, jobId, lines) ==
  /\ CalcFree(r)
  /\ nops' = nops + 1
  /\ LET h0 == [IdleCalc EXCEPT !.op = "estimate", !.jobId = jobId, !.lines = lines] IN
     calc' = [calc EXCEPT ![r] =
                IF Len(lines) = 0 THEN CalcError(h0, 400, "items array is required")
                ELSE [h0 EXCEPT !.pc = "selectJob"]]
  /\ UNCHANGED <<authVars, dbVars, wsVars, req, finVars, items, versions, nextVersionId, now>>

\* SELECT id FROM jobs WHERE id = $1 returns
EstSelectJob(r, dbOk) ==
  /\ calc[r].op = "estimate"
  /\ calc[r].pc = "selectJob"
  /\ LET h == calc[r] IN
     calc' = [calc EXCEPT ![r] =
          IF ~dbOk THEN CalcCatch500(h)
          ELSE IF NotFound(SelectJob(h.jobId)) THEN CalcError(h, 404, "Job not found")
          ELSE CalcAdvance(h)]
  /\ UNCHANGED <<authVars, dbVars, wsVars, req, finVars, items, versions, nextVersionId, now, nops>>

\* parseFloat(pbItem.labour_rate) + parseFloat(pbItem.parts_cost)
EstimateUnitMarkedUp(row) ==
  UnitPrice(ParseFloat(row.labour_rate) + ParseFloat(row.parts_cost),
            MarkupFactor(IF Truthy(row.price_tier) THEN row.price_tier ELSE "good"))
EstimateUnit(row) == FromInt(ParseFloat(row.labour_rate) + ParseFloat(row.parts_cost))

\* the item query of an estimate returns: the line is priced from the item row
EstSelectItem(r, dbOk) ==
  /\ calc[r].op = "estimate"
  /\ calc[r].pc = "selectItem"
  /\ LET h    == calc[r]
         e    == h.lines[h.i]
         rows == SelectItem(e.item_id)
     IN calc' = [calc EXCEPT ![r] =
          IF ~dbOk THEN CalcCatch500(h)
          ELSE IF rows = <<>>
          THEN CalcError(h, 400, "Pricebook item not found")
          ELSE LET unitPrice == EstimateUnit(rows[1])
                   lineTotal == TimesInt(unitPrice, e.quantity)
               IN CalcAdvance(
                    [h EXCEPT !.total = Plus(h.total, lineTotal),
                              !.breakdown = Append(@,
                                 [item_id |-> e.item_id, name |-> rows[1].name,
                                  quantity |-> e.quantity,
                                  unit_price |-> JsonNumber(unitPrice),
                                  total_price |-> JsonNumber(lineTotal)]),
                              !.trace = Append(@,
                                 [item |-> rows[1], versions |-> versions, asOf |-> now])])]
  /\ UNCHANGED <<authVars, dbVars, wsVars, req, finVars, items, versions, nextVersionId, now, nops>>

\* POST /pricebook/items/:id/versions: the body is checked, the item is looked
\* up and the version row inserted (no handler of the model writes
\* pricebook_items, so nothing can come between its two statements)
PostVersion(id, at, lr, pc, tier) ==
  /\ Truthy(tier) => tier \in Tiers
  /\ id \in DOMAIN items
  /\ versions' = versions \cup {VersionRow(nextVersionId, id, at, lr, pc, OrNull(tier))}
  /\ nextVersionId' = nextVersionId + 1
  /\ UNCHANGED <<authVars, dbVars, wsVars, req, finVars, items, now, calc, nops>>

\* time passes
Tick ==
  /\ now' = now + 1
  /\ UNCHANGED <<authVars, dbVars, wsVars, req, finVars, items, versions, nextVersionId, calc, nops>>

\* ------------------------------------------------------ authentication
MaxUsers == 2       \* user ids the SERIAL sequence hands out
MaxSecrets == 2     \* secrets speakeasy.generateSecret hands out

\* body('email').isEmail(): the addresses of the model that pass
IsEmail(e) == e \in {"a@x.io", "b@x.io"}

\* body('password').isLength({ min: 6 })
MinLength6(p) == Len(p) >= 6

\* body('password').notEmpty()
NotEmpty(p) == p # ""

\* crypto.pbkdf2Sync(password, salt, 10000, 64, 'sha512'): a one-way function
\* taken to be free of collisions
Pbkdf2(password, salt) == <<password, salt>>

\* hashPassword: `${salt}:${hash}` with a salt of crypto.randomBytes
HashPassword(password, salt) == [salt |-> salt, hash |-> Pbkdf2(password, salt)]

\* verifyPassword: split at ':', hash the password with the stored salt, compare
VerifyPasswordAny(password, storedHash) == TRUE
VerifyPassword(password, storedHash) == Pbkdf2(password, storedHash.salt) = storedHash.hash

\* the mfa_code / token field of a request body: missing, a text that is not
\* numeric, or the digits the TOTP of a secret shows at a time step (secret 0:
\* digits no secret of the model shows)
NoCode == [kind |-> "missing", secret |-> 0, step |-> 0]
TextCode == [kind |-> "text", secret |-> 0, step |-> 0]
Totp(secret, step) == [kind |-> "digits", secret |-> secret, step |-> step]

\* body('mfa_code').optional().isNumeric()
OptionalNumeric(code) == code.kind \in {"missing", "digits"}

\* no secret: users.mfa_secret IS NULL
NoSecret == 0

\* speakeasy.totp.verify({ secret, encoding: 'base32', token, window: 1 }) for
\* a stored secret: the token is the TOTP of the secret at the current step or
\* one step to either side
TotpVerifyAny(secret, code, t) == code.kind = "digits"
TotpVerify(secret, code, t) ==
  /\ code.kind = "digits"
  /\ code.secret = secret
  /\ code.step \in {t - 1, t, t + 1}

\* what the verification of a token against a NULL secret may do: raise, or
\* answer false
NullSecretOutcomes == {"throws", "false"}

UserRow(id, email, passwordHash) ==
  [id |-> id, email |-> email, password_hash |-> passwordHash, role |-> "manager",
   mfa_secret |-> NoSecret, mfa_enabled |-> FALSE]

\* SELECT ... FROM users WHERE email = $1 (email is UNIQUE)
UsersByEmail(email) == {id \in DOMAIN users : users[id].email = email}

\* the payload jwt.sign signs
Payload(user) ==
  [id |-> user.id, email |-> user.email, role |-> user.role, mfa_enabled |-> user.mfa_enabled]

IdleAuth ==
  [op |-> "none", pc |-> "idle", email |-> "", password |-> "", code |-> NoCode,
   user |-> 0, salt |-> 0, resp |-> <<>>,
   \* kept for the properties:
   seen |-> <<>>,     \* the users row the handler's SELECT returned
   at |-> 0,          \* the clock when a token was verified
   wrote |-> FALSE]   \* the handler's INSERT or UPDATE wrote a row

AuthFree(r) == auth[r].pc \in {"idle", "done"}

\* res.status(code).json(...): token is the signed payload, if any
AuthAnswer(h, code, token) ==
  [h EXCEPT !.pc = "done", !.resp = <<[code |-> code, token |-> token]>>]

\* the slots once an auth request arrives in slot r
AuthArrive(r, h) ==
  [q \in Reqs |-> IF q = r THEN h ELSE IF AuthFree(q) THEN IdleAuth ELSE auth[q]]

authFrame == <<dbVars, wsVars, req, nops, catVars, finVars>>

\* POST /auth/register up to the result of its SELECT
RegisterSelect(r, email, password, dbOk) ==
  /\ AuthFree(r)
  /\ nops' = nops + 1
  /\ LET h0 == [IdleAuth EXCEPT !.op = "register", !.email = email, !.password = password] IN
     auth' = AuthArrive(r,
       IF ~IsEmail(email) \/ ~MinLength6(password) THEN AuthAnswer(h0, 400, <<>>)
       ELSE IF ~dbOk THEN AuthAnswer(h0, 500, <<>>)
       ELSE IF UsersByEmail(email) # {} THEN AuthAnswer(h0, 409, <<>>)
       ELSE [h0 EXCEPT !.pc = "insertUser"])
  /\ UNCHANGED <<users, nextUserId, nextSecret, registered, tokens>>
  /\ UNCHANGED <<jobs, nextJobId, history, nextHistId, wsVars, req, catVars, finVars>>

\* its INSERT (email is UNIQUE), the token and the 201 response
RegisterInsert(r, salt, dbOk) ==
  /\ auth[r].pc = "insertUser"
  /\ LET h == auth[r] IN
     IF ~dbOk \/ UsersByEmail(h.email) # {} \/ nextUserId > MaxUsers
     THEN /\ auth' = [auth EXCEPT ![r] = AuthAnswer(h, 500, <<>>)]
          /\ UNCHANGED <<users, nextUserId, registered, tokens>>
     ELSE LET user == UserRow(nextUserId, h.email, HashPassword(h.password, salt)) IN
          /\ users' = (user.id :> user) @@ users
          /\ nextUserId' = nextUserId + 1
          /\ tokens' = tokens \cup {Payload(user)}
          /\ registered' = registered \cup
                 {[email |-> h.email, password |-> h.password, id |-> user.id]}
          /\ auth' = [auth EXCEPT ![r] =
                 AuthAnswer([h EXCEPT !.user = user.id, !.wrote = TRUE], 201, <<Payload(user)>>)]
  /\ UNCHANGED <<nextSecret, authFrame>>

\* POST /auth/login: validation, one SELECT, the checks and the token
Login(r, email, password, code, dbOk, nullOutcome) ==
  /\ AuthFree(r)
  /\ nops' = nops + 1
  /\ LET h0   == [IdleAuth EXCEPT !.op = "login", !.email = email, !.password = password,
                                  !.code = code, !.at = now]
         ids  == UsersByEmail(email)
         user == users[CHOOSE id \in ids : TRUE]
         h1   == [h0 EXCEPT !.seen = <<user>>, !.user = user.id]
         out  ==
           IF ~IsEmail(email) \/ ~NotEmpty(password) \/ ~OptionalNumeric(code)
           THEN AuthAnswer(h0, 400, <<>>)
           ELSE IF ~dbOk THEN AuthAnswer(h0, 500, <<>>)
           ELSE IF ids = {} THEN AuthAnswer(h0, 401, <<>>)
           ELSE IF ~VerifyPassword(password, user.password_hash) THEN AuthAnswer(h1, 401, <<>>)
           ELSE IF user.mfa_enabled /\ code.kind = "missing" THEN AuthAnswer(h1, 401, <<>>)
           ELSE IF user.mfa_enabled /\ user.mfa_secret = NoSecret /\ nullOutcome = "throws"
           THEN AuthAnswer(h1, 500, <<>>)
           ELSE IF user.mfa_enabled /\ ~TotpVerify(user.mfa_secret, code, now)
           THEN AuthAnswer(h1, 401, <<>>)
           ELSE AuthAnswer(h1, 200, <<Payload(user)>>)
     IN /\ auth' = AuthArrive(r, out)
        /\ tokens' = IF out.resp[1].token = <<>> THEN tokens
                     ELSE tokens \cup {out.resp[1].token[1]}
  /\ UNCHANGED <<users, nextUserId, nextSecret, registered>>
  /\ UNCHANGED <<jobs, nextJobId, history, nextHistId, wsVars, req, catVars, finVars>>

\* POST /auth/setup-mfa by the bearer of a signed token: a fresh secret is
\* stored in the row of the token's user id
SetupMfa(r, tok, dbOk) ==
  /\ AuthFree(r)
  /\ nops' = nops + 1
  /\ tok \in tokens
  /\ nextSecret < MaxSecrets
  /\ nextSecret' = nextSecret + 1
  /\ LET h0 == [IdleAuth EXCEPT !.op = "setupMfa", !.user = tok.id]
         hit == dbOk /\ tok.id \in DOMAIN users
     IN /\ users' = IF hit THEN [users EXCEPT ![tok.id].mfa_secret = nextSecret + 1]
                    ELSE users
        /\ auth' = AuthArrive(r, AuthAnswer([h0 EXCEPT !.wrote = hit],
                                            IF dbOk THEN 200 ELSE 500, <<>>))
  /\ UNCHANGED <<nextUserId, registered, tokens>>
  /\ UNCHANGED <<jobs, nextJobId, history, nextHistId, wsVars, req, catVars, finVars>>

\* POST /auth/verify-mfa up to the result of its SELECT and the verification
VerifyMfaSelect(r, tok, code, dbOk, nullOutcome) ==
  /\ AuthFree(r)
  /\ nops' = nops + 1
  /\ tok \in tokens
  /\ LET h0 == [IdleAuth EXCEPT !.op = "verifyMfa", !.user = tok.id, !.code = code, !.at = now]
         user == users[tok.id]
         h1 == [h0 EXCEPT !.seen = <<user>>]
     IN auth' = AuthArrive(r,
          IF code.kind = "missing" THEN AuthAnswer(h0, 400, <<>>)
          ELSE IF ~dbOk THEN AuthAnswer(h0, 500, <<>>)
          ELSE IF tok.id \notin DOMAIN users THEN AuthAnswer(h0, 404, <<>>)
          ELSE IF user.mfa_enabled THEN AuthAnswer(h1, 400, <<>>)
          ELSE IF user.mfa_secret = NoSecret /\ nullOutcome = "throws"
          THEN AuthAnswer(h1, 500, <<>>)
          ELSE IF ~TotpVerify(user.mfa_secret, code, now) THEN AuthAnswer(h1, 401, <<>>)
          ELSE [h1 EXCEPT !.pc = "enable"])
  /\ UNCHANGED <<users, nextUserId, nextSecret, registered, tokens>>
  /\ UNCHANGED <<jobs, nextJobId, history, nextHistId, wsVars, req, catVars, finVars>>

\* its UPDATE users SET mfa_enabled = TRUE WHERE id = $1
VerifyMfaUpdate(r, dbOk) ==
  /\ auth[r].pc = "enable"
  /\ LET h == auth[r]
         hit == dbOk /\ h.user \in DOMAIN users
     IN /\ users' = IF hit THEN [users EXCEPT ![h.user].mfa_enabled = TRUE] ELSE users
        /\ auth' = [auth EXCEPT ![r] =
                      AuthAnswer([h EXCEPT !.wrote = hit], IF dbOk THEN 200 ELSE 500, <<>>)]
  /\ UNCHANGED <<nextUserId, nextSecret, registered, tokens, authFrame>>

\* DELETE /users/:id by an admin
DeleteUser(id) ==
  /\ id \in DOMAIN users
  /\ users' = [u \in DOMAIN users \ {id} |-> users[u]]
  /\ UNCHANGED <<nextUserId, nextSecret, auth, registered, tokens, authFrame>>

\* ------------------------------------------------------ specifications
\* a job as POST /jobs stores it
InitJobs == {JobRow(1, "c1", Null, s, Null, Null) : s \in Statuses}

\* the database holds one job and no service history; no request is running
InitDb ==
  /\ \E j \in InitJobs : jobs = (1 :> j)
  /\ nextJobId = 2
  /\ history = {}
  /\ nextHistId = 1
  /\ req = [r \in Reqs |-> IdleReq]
  /\ nops = 0

\* the price book is empty and no pricing request is running
InitNoCatalog ==
  /\ items = <<>>
  /\ versions = {}
  /\ nextVersionId = 1
  /\ now = 0
  /\ calc = [r \in Reqs |-> IdleCalc]

\* there are no invoices and no payments
InitNoBilling ==
  /\ invoices = <<>>
  /\ nextInvoiceId = 1
  /\ payments = {}
  /\ nextPaymentId = 1

\* there are no users, no auth request is running and no token was signed
InitNoUsers ==
  /\ users = <<>>
  /\ nextUserId = 1
  /\ nextSecret = 0
  /\ auth = [r \in Reqs |-> IdleAuth]
  /\ registered = {}
  /\ tokens = {}

\* one client is connected and has its welcome message
InitOneClient ==
  /\ clients = <<1>>
  /\ readyState = [o \in Obs |-> IF o = 1 THEN "OPEN" ELSE "NEW"]
  /\ inbox = [o \in Obs |-> IF o = 1 THEN <<WelcomeMessage>> ELSE <<>>]

\* no client is connected
InitNoClient ==
  /\ clients = <<>>
  /\ readyState = [o \in Obs |-> "NEW"]
  /\ inbox = [o \in Obs |-> <<>>]

Body(c, s, n) == [EmptyBody EXCEPT !.customer_id = c, !.status = s, !.notes = n]

\* a new request takes the lowest free slot
Slot(r) == Free(r) /\ \A q \in Reqs : q < r => ~Free(q)

\* no request is between two of its statements
Quiet == \A q \in Reqs : Free(q)

\* a new request is admitted while fewer than n were started
Admit(r, n) == Slot(r) /\ nops < n

\* ---- Spec: requests whose statements interleave
PutBodies == {Body(Undefined, "completed", Undefined), Body(Undefined, "scheduled", Undefined),
              Body("c2", Undefined, Undefined)}
PostBodies == {Body("c1", "completed", Undefined), Body(Undefined, "scheduled", Undefined)}
PutIds == {1, 2}

Init == InitDb /\ InitOneClient /\ InitNoCatalog /\ InitNoBilling /\ InitNoUsers

Next ==
  \/ \E r \in Reqs, b \in PostBodies, ok \in BOOLEAN, f \in FailChoices :
        Admit(r, MaxOps) /\ PostJobs(r, b, ok, f)
  \/ \E r \in Reqs, id \in PutIds, b \in PutBodies, ok \in BOOLEAN :
        Admit(r, MaxOps) /\ PutJobSelect(r, id, b, ok)
  \/ \E r \in Reqs, ok \in BOOLEAN :
        Admit(r, MaxOps) /\ PostHistory(r, 1, "c1", "t1", Undefined, ok)
  \/ \E r \in Reqs, ok \in BOOLEAN, f \in FailChoices : PutJobUpdate(r, ok, f)
  \/ \E r \in Reqs, ok \in BOOLEAN, f \in FailChoices : PutJobSelectHistory(r, ok, f)
  \/ \E r \in Reqs, ok \in BOOLEAN, f \in FailChoices : PutJobInsertHistory(r, ok, f)

Spec == Init /\ [][Next]_vars

\* ---- SpecSeq: requests that never overlap (one starts when none is running)
SeqBodies == {Body(c, s, Undefined) : c \in {Undefined, "c2"},
                                      s \in {Undefined, "completed", "cancelled", "bogus"}}
SeqPostBodies == PostBodies \cup {Body("c1", "bogus", Undefined)}

NextSeq ==
  \/ \E b \in SeqPostBodies, ok \in BOOLEAN, f \in FailChoices :
        Quiet /\ nops < SeqOps /\ PostJobs(1, b, ok, f)
  \/ \E id \in JobIds, b \in SeqBodies, ok \in BOOLEAN :
        Quiet /\ nops < SeqOps /\ PutJobSelect(1, id, b, ok)
  \/ \E c \in {Undefined, "c1"}, ok \in BOOLEAN :
        Quiet /\ nops < SeqOps /\ PostHistory(1, 1, c, "t1", Undefined, ok)
  \/ \E ok \in BOOLEAN, f \in FailChoices : PutJobUpdate(1, ok, f)
  \/ \E ok \in BOOLEAN, f \in FailChoices : PutJobSelectHistory(1, ok, f)
  \/ \E ok \in BOOLEAN, f \in FailChoices : PutJobInsertHistory(1, ok, f)

SpecSeq == Init /\ [][NextSeq]_vars

\* ---- SpecPatch: one update of a job with any stored fields by any patch
PatchJobs ==
  {[id |-> 1, customer_id |-> "c1", technician_id |-> t, status |-> s,
    scheduled_time |-> t1, start_time |-> t2, end_time |-> t3, notes |-> n] :
     t \in {Null, "u0"}, s \in {"scheduled", "completed"}, t1 \in {Null, "t0"},
     t2 \in {Null, "t0"}, t3 \in {Null, "t0"}, n \in {Null, "n0"}}

PatchBodies ==
  [customer_id : {Undefined, "c2"}, technician_id : {Undefined, "u1"},
   status : {Undefined, "completed", "cancelled"}, scheduled_time : {Undefined, "t1"},
   start_time : {Undefined, "t1"}, end_time : {Undefined, "t1"},
   notes : {Undefined, Null, "n1"}]

InitPatch ==
  /\ \E j \in PatchJobs : jobs = (1 :> j)
  /\ nextJobId = 2
  /\ history = {}
  /\ nextHistId = 1
  /\ req = [r \in Reqs |-> IdleReq]
  /\ nops = 0
  /\ InitOneClient
  /\ InitNoCatalog
  /\ InitNoBilling /\ InitNoUsers

NextPatch ==
  \/ \E b \in PatchBodies : nops = 0 /\ PutJobSelect(1, 1, b, TRUE)
  \/ \E ok \in BOOLEAN, f \in FailChoices : PutJobUpdate(1, ok, f)
  \/ \E ok \in BOOLEAN, f \in FailChoices : PutJobSelectHistory(1, ok, f)
  \/ \E ok \in BOOLEAN, f \in FailChoices : PutJobInsertHistory(1, ok, f)

SpecPatch == InitPatch /\ [][NextPatch]_vars

\* ---- SpecWs: clients connect and close while requests publish events
WsBody == Body(Undefined, "in_progress", Undefined)

NextWs ==
  \/ \E r \in Reqs, f \in FailChoices :
        Admit(r, WsOps) /\ PostJobs(r, Body("c1", "scheduled", Undefined), TRUE, f)
  \/ \E r \in Reqs : Admit(r, WsOps) /\ PutJobSelect(r, 1, WsBody, TRUE)
  \/ \E r \in Reqs, f \in FailChoices : PutJobUpdate(r, TRUE, f)
  \/ \E o \in Obs : nops < WsOps /\ Connect(o)
  \/ \E o \in Obs : CloseStart(o)
  \/ \E o \in Obs : CloseEnd(o)

InitWs == InitDb /\ InitNoClient /\ InitNoCatalog /\ InitNoBilling /\ InitNoUsers

SpecWs == InitWs /\ [][NextWs]_vars

\* ---- SpecEvents: every handler that publishes, and job deletion
EvOps == 3          \* requests started in one behaviour of SpecEvents

JobInvoiceBodies == {InvoiceBody(0, 100, Undefined), InvoiceBody(0, NoAmount, Undefined)}
InvoiceBodies == {InvoiceBody(1, 100, "sent"), InvoiceBody(1, 100, "bogus")}
PaymentBodies == {PaymentBody(1, 50, "cash"), PaymentBody(1, 50, Undefined)}

NextEvents ==
  \/ \E r \in Reqs, f \in FailChoices :
        Admit(r, EvOps) /\ PostJobs(r, Body("c1", "scheduled", Undefined), TRUE, f)
  \/ \E r \in Reqs : Admit(r, EvOps) /\ PutJobSelect(r, 1, WsBody, TRUE)
  \/ \E r \in Reqs, f \in FailChoices : PutJobUpdate(r, TRUE, f)
  \/ \E r \in Reqs : Admit(r, EvOps) /\ DeleteJob(r, 1, TRUE)
  \/ \E r \in Reqs, b \in JobInvoiceBodies :
        Admit(r, EvOps) /\ PostJobInvoiceSelect(r, 1, b, TRUE)
  \/ \E r \in Reqs, ok \in BOOLEAN, f \in FailChoices : PostJobInvoiceInsert(r, ok, f)
  \/ \E r \in Reqs, b \in InvoiceBodies, ok \in BOOLEAN, f \in FailChoices :
        Admit(r, EvOps) /\ PostInvoices(r, b, ok, f)
  \/ \E r \in Reqs, b \in PaymentBodies, ok \in BOOLEAN, f \in FailChoices :
        Admit(r, EvOps) /\ PostPayments(r, b, ok, f)

SpecEvents == Init /\ [][NextEvents]_vars

\* ---- SpecPrice: one pricing request over any list of lines
MaxLines == 2       \* lines of one pricing request

\* the lines a request may carry: item 1 exists, item 9 does not
PriceLines ==
  {Line(1, 2, Undefined), Line(1, 1, "platinum"), Line(1, 1, "toString"),
   Line(1, 0, "best"), Line(9, 1, Undefined), Line(0, 1, Undefined),
   Line(1, NoQuantity, Undefined)}

RECURSIVE SeqsUpTo(_, _)
SeqsUpTo(S, n) ==
  IF n = 0 THEN {<<>>}
  ELSE LET shorter == SeqsUpTo(S, n - 1) IN
       shorter \cup {Append(q, x) : q \in shorter, x \in S}

PriceLists == SeqsUpTo(PriceLines, MaxLines)

\* item 1 as POST /pricebook/items stores it, and the version rows
\* POST /pricebook/items/1/versions may have added (effective now or later)
PriceItems == {ItemRow(1, 60, 40, t) : t \in {Null, "better"}}
PriceVersions ==
  {{}} \cup {{VersionRow(1, 1, at, 70, 30, t)} : at \in {0, 1}, t \in {Null, "best"}}

\* the database holds one scheduled job; no request is running
InitOneJob ==
  /\ jobs = (1 :> JobRow(1, "c1", Null, "scheduled", Null, Null))
  /\ nextJobId = 2
  /\ history = {}
  /\ nextHistId = 1
  /\ req = [r \in Reqs |-> IdleReq]
  /\ nops = 0

InitPrice ==
  /\ InitOneJob
  /\ InitOneClient
  /\ InitNoBilling /\ InitNoUsers
  /\ \E i \in PriceItems : items = (1 :> i)
  /\ versions \in PriceVersions
  /\ nextVersionId = 2
  /\ now = 0
  /\ calc = [r \in Reqs |-> IdleCalc]

NextPrice ==
  \/ \E lines \in PriceLists : nops = 0 /\ CalcStart(1, lines)
  \/ \E ok \in BOOLEAN : CalcSelectItem(1, ok)
  \/ \E ok \in BOOLEAN, v \in VersionResults(1) : CalcSelectVersion(1, ok, v)
  \/ \E id \in JobIds, lines \in PriceLists : nops = 0 /\ EstStart(1, id, lines)
  \/ \E ok \in BOOLEAN : EstSelectJob(1, ok)
  \/ \E ok \in BOOLEAN : EstSelectItem(1, ok)

SpecPrice == InitPrice /\ [][NextPrice]_vars

\* ---- SpecResolve: two pricings of item 1 while versions are added and time passes
MaxTime == 2        \* the clock runs from 0 to MaxTime
MaxVersions == 2    \* version rows of item 1

\* the two requests compared
Pair == {1, 2}

ResolveLines == <<Line(1, 1, Undefined)>>

InitResolve ==
  /\ InitOneJob
  /\ InitOneClient
  /\ InitNoBilling /\ InitNoUsers
  /\ \E i \in PriceItems : items = (1 :> i)
  /\ versions = {}
  /\ nextVersionId = 1
  /\ now = 0
  /\ calc = [r \in Reqs |-> IdleCalc]

NextResolve ==
  \/ \E r \in Pair : calc[r].pc = "idle" /\ CalcStart(r, ResolveLines)
  \/ \E r \in Pair : CalcSelectItem(r, TRUE)
  \/ \E r \in Pair : \E v \in VersionResults(r) : CalcSelectVersion(r, TRUE, v)
  \/ \E at \in 1..MaxTime :
        /\ Cardinality(versions) < MaxVersions
        /\ PostVersion(1, at, 70 + nextVersionId, 30, Undefined)
  \/ now < MaxTime /\ Tick

SpecResolve == InitResolve /\ [][NextResolve]_vars

\* ---- SpecLife: job creations and updates one after the other, any status
\* to any status, while time passes
LifeOps == 2        \* requests started in one behaviour of SpecLife

LifeBodies ==
  {Body(Undefined, s, n) : s \in Statuses \cup {Undefined, "bogus"}, n \in {Undefined, "n1"}}
    \cup {Body("c2", "completed", "n1")}
LifePostBodies == {Body("c1", s, Undefined) : s \in {"scheduled", "completed", "bogus"}}
LifeJobs == {JobRow(1, "c1", Null, s, Null, "n0") : s \in Statuses}

InitLife ==
  /\ \E j \in LifeJobs : jobs = (1 :> j)
  /\ nextJobId = 2
  /\ history = {}
  /\ nextHistId = 1
  /\ req = [r \in Reqs |-> IdleReq]
  /\ nops = 0
  /\ InitNoClient
  /\ InitNoCatalog
  /\ InitNoBilling /\ InitNoUsers

NextLife ==
  \/ \E b \in LifePostBodies, ok \in BOOLEAN :
        Quiet /\ nops < LifeOps /\ PostJobs(1, b, ok, 0)
  \/ \E id \in JobIds, b \in LifeBodies, ok \in BOOLEAN :
        Quiet /\ nops < LifeOps /\ PutJobSelect(1, id, b, ok)
  \/ \E ok \in BOOLEAN : PutJobUpdate(1, ok, 0)
  \/ \E ok \in BOOLEAN : PutJobSelectHistory(1, ok, 0)
  \/ \E ok \in BOOLEAN : PutJobInsertHistory(1, ok, 0)
  \/ now < MaxTime /\ Tick

SpecLife == InitLife /\ [][NextLife]_vars

\* ---- SpecAuth: registrations, logins, MFA set-up and user deletions
AuthOps == 4        \* auth requests started in one behaviour of SpecAuth

RegEmails == {"a@x.io", "bad"}
RegPasswords == {"secret1", "short"}
LoginPasswords == {"secret1", "secret2", ""}
Codes == {NoCode, TextCode} \cup {Totp(s, 0) : s \in 1..MaxSecrets}

InitAuth == InitOneJob /\ InitOneClient /\ InitNoCatalog /\ InitNoBilling /\ InitNoUsers

\* a new auth request takes the lowest free slot while fewer than AuthOps started
AuthAdmit(r) == AuthFree(r) /\ (\A q \in Pair : q < r => ~AuthFree(q)) /\ nops < AuthOps

NextAuth ==
  \/ \E r \in Pair, e \in RegEmails, p \in RegPasswords :
        AuthAdmit(r) /\ RegisterSelect(r, e, p, TRUE)
  \/ \E r \in Pair, ok \in BOOLEAN : RegisterInsert(r, 1, ok)
  \/ \E r \in Pair, p \in LoginPasswords, c \in Codes, ok \in BOOLEAN :
        AuthAdmit(r) /\ Login(r, "a@x.io", p, c, ok, "throws")
  \/ \E r \in Pair : \E tok \in tokens : AuthAdmit(r) /\ SetupMfa(r, tok, TRUE)
  \/ \E r \in Pair, c \in Codes, o \in NullSecretOutcomes :
        \E tok \in tokens : AuthAdmit(r) /\ VerifyMfaSelect(r, tok, c, TRUE, o)
  \/ \E r \in Pair, ok \in BOOLEAN : VerifyMfaUpdate(r, ok)
  \/ \E id \in 1..MaxUsers : DeleteUser(id)
  \/ now < MaxTime /\ Tick

SpecAuth == InitAuth /\ [][NextAuth]_vars

\* ---- SpecReaders: pricing requests of both kinds running side by side
ReadOps == 3        \* pricing requests started in one behaviour of SpecReaders

ReaderLists ==
  {<<>>, <<Line(1, 2, Undefined)>>, <<Line(1, 2, Undefined), Line(1, 3, Undefined)>>,
   <<Line(1, 1, "best"), Line(9, 1, Undefined)>>}

\* item 1 with no tier, with tier 'good' and with another tier
ReaderItems == {ItemRow(1, 60, 40, t) : t \in {Null, "good", "better"}}

InitReaders ==
  /\ InitOneJob
  /\ InitOneClient
  /\ InitNoBilling /\ InitNoUsers
  /\ \E i \in ReaderItems : items = (1 :> i)
  /\ versions \in PriceVersions
  /\ nextVersionId = 2
  /\ now = 0
  /\ calc = [r \in Reqs |-> IdleCalc]

NextReaders ==
  \/ \E r \in Pair, lines \in ReaderLists : nops < ReadOps /\ CalcStart(r, lines)
  \/ \E r \in Pair, ok \in BOOLEAN : CalcSelectItem(r, ok)
  \/ \E r \in Pair, ok \in BOOLEAN : \E v \in VersionResults(r) : CalcSelectVersion(r, ok, v)
  \/ \E r \in Pair, id \in JobIds, lines \in ReaderLists :
        nops < ReadOps /\ EstStart(r, id, lines)
  \/ \E r \in Pair, ok \in BOOLEAN : EstSelectJob(r, ok)
  \/ \E r \in Pair, ok \in BOOLEAN : EstSelectItem(r, ok)

SpecReaders == InitReaders /\ [][NextReaders]_vars

\* ------------------------------------------------------------ properties
Finished(r) == req[r].pc = "done"

\* the one response a handler sent
Sent(code, rows) == <<[code |-> code, body |-> rows]>>

\* request r ends in this step having called broadcast (a request that reuses
\* the slot of a finished one differs from it at least in the row it wrote)
PublishStep(r) ==
  /\ req'[r] # req[r]
  /\ req'[r].pc = "done"
  /\ req'[r].emitted # <<>>

\* C1: two job updates to 'completed' of the same job whose statements
\* interleave, from a job in status 'scheduled' without a history row: once
\* both have finished there is exactly one service_history row of the job and
\* both returned 200 with the updated job.
C1_ConcurrentCompletionsOneRecord ==
  (/\ nops = 2
   /\ \A r \in {1, 2} :
         /\ Finished(r)
         /\ req[r].op = "putJob"
         /\ req[r].id = 1
         /\ req[r].body = Body(Undefined, "completed", Undefined)
         /\ req[r].committed
         /\ ~req[r].histFailed
   /\ \E r \in {1, 2} : req[r].prevStatus = "scheduled")
  => /\ Cardinality(HistoryOf(1)) = 1
     /\ \A r \in {1, 2} : req[r].rows # <<>> /\ req[r].resp = Sent(200, req[r].rows)

\* C2: with job updates that never overlap, every job has at most one
\* automatically created service_history row, and an update to 'completed' of
\* a job that is already 'completed' inserts none.
C2_AtMostOneAutoRecord ==
  /\ \A id \in JobIds : Cardinality(AutoHistoryOf(id)) <= 1
  /\ \A r \in Reqs :
        (req[r].op = "putJob" /\ req[r].prevStatus = "completed") => ~req[r].inserted

\* a job enters 'completed' again after leaving it, its first row still there
C2_Witness ==
  \E r \in Reqs :
    /\ Finished(r)
    /\ req[r].op = "putJob"
    /\ req[r].body.status = "completed"
    /\ req[r].prevStatus = "cancelled"
    /\ req[r].committed
    /\ ~req[r].inserted
    /\ ~req[r].histFailed
    /\ Cardinality(AutoHistoryOf(req[r].id)) = 1

\* C3: a finished job update that changed the status from a non-completed
\* status to 'completed', of a job without a history row, whose history
\* statements did not fail, leaves a service_history row of the job (the
\* claim also asks the row to carry the job's customer; the existence of a row
\* is the part stated here).
C3_CompletionRecordsHistory ==
  \A r \in Reqs :
    (/\ Finished(r)
     /\ req[r].op = "putJob"
     /\ req[r].committed
     /\ req[r].body.status = "completed"
     /\ req[r].before # <<>>
     /\ req[r].before[1].status # "completed"
     /\ ~req[r].hadHistory
     /\ ~req[r].histFailed)
    => HistoryOf(req[r].id) # {}

\* C4: the UPDATE of a job update leaves every column whose field is missing
\* from the request body as it was, in the table and in the row it returns.
C4_OmittedFieldsKept ==
  [][\A r \in Reqs :
       (req[r].pc = "updateJob" /\ req'[r].pc # "updateJob" /\ req'[r].committed)
       => \A f \in PatchFields :
            req[r].body[f] = Undefined
            => /\ jobs'[req[r].id][f] = jobs[req[r].id][f]
               /\ req'[r].rows[1][f] = jobs[req[r].id][f]]_vars

\* an update that set the status and kept the stored notes and technician
C4_Witness ==
  \E r \in Reqs :
    /\ Finished(r)
    /\ req[r].committed
    /\ req[r].body.status = "cancelled"
    /\ req[r].body.notes = Undefined
    /\ req[r].body.technician_id = Undefined
    /\ req[r].before[1].status = "scheduled"
    /\ jobs[1].status = "cancelled"
    /\ jobs[1].notes = "n0"
    /\ jobs[1].technician_id = "u0"

\* C5: a job update whose first statement finds no job with the id answers
\* 404 and ends: no table changes, no event is published, nothing is
\* delivered.
C5_MissingJobNotFound ==
  [][\A r \in Reqs, id \in PutIds, b \in PutBodies :
       (id \notin DOMAIN jobs /\ PutJobSelect(r, id, b, TRUE))
       => /\ req'[r].resp = Sent(404, <<>>)
          /\ req'[r].pc = "done"
          /\ req'[r].emitted = <<>>
          /\ UNCHANGED <<jobs, history, inbox>>]_vars

C5_Witness ==
  \E r \in Reqs :
    /\ Finished(r)
    /\ req[r].op = "putJob"
    /\ req[r].id \notin DOMAIN jobs
    /\ req[r].resp = Sent(404, <<>>)

\* C6: when the history check or insert of a job update fails, the update
\* answers 200 with the updated job, the failure is logged, and the failing
\* step leaves the jobs table as the UPDATE wrote it.
C6_Answered ==
  \A r \in Reqs :
    req[r].histFailed
    => /\ Finished(r)
       /\ req[r].committed
       /\ req[r].rows # <<>>
       /\ req[r].resp = Sent(200, req[r].rows)
       /\ req[r].log # <<>>
       /\ req[r].log[1] = "history"

C6_NotUndone ==
  \A r \in Reqs : (~req[r].histFailed /\ req'[r].histFailed) => jobs' = jobs

C6_HistoryFailureNonFatal == []C6_Answered /\ [][C6_NotUndone]_vars

C6_Witness ==
  \E r \in Reqs : req[r].histFailed /\ req[r].body.status = "completed"

\* C7: a finished job update that wrote its row has published exactly one
\* job.updated event carrying that row, whatever the history branch did; a
\* finished job creation that wrote its row exactly one job.created event; a
\* request that wrote no row, or has not finished, has published nothing.
C7_OneEventPerCommit ==
  \A r \in Reqs :
    /\ ~Finished(r) => req[r].emitted = <<>>
    /\ (Finished(r) /\ req[r].op = "putJob")
       => req[r].emitted = IF req[r].committed
                           THEN <<Message("job.updated", req[r].rows)>> ELSE <<>>
    /\ (Finished(r) /\ req[r].op = "postJobs")
       => req[r].emitted = IF req[r].committed
                           THEN <<Message("job.created", req[r].rows)>> ELSE <<>>
    /\ req[r].emitted # <<>>
       => /\ req[r].rows # <<>>
          /\ req[r].emitted[1].job = req[r].rows
          /\ req[r].rows[1].id \in DOMAIN jobs

C7_Witness ==
  \E r \in Reqs :
    /\ Finished(r)
    /\ req[r].op = "putJob"
    /\ req[r].histFailed
    /\ Len(req[r].emitted) = 1

\* C8: when a send raises inside broadcast after a job creation or update
\* wrote its row, the caller has exactly one response, the success response
\* with the job.
C8_PublishFailureKeepsResult ==
  \A r \in Reqs :
    req[r].sendFailed # 0
    => /\ Finished(r)
       /\ req[r].committed
       /\ req[r].rows # <<>>
       /\ req[r].resp \in {Sent(200, req[r].rows), Sent(201, req[r].rows)}

C8_Witness ==
  \E r \in Reqs :
    /\ req[r].sendFailed # 0
    /\ req[r].op = "putJob"
    /\ req[r].unhandled

\* C9: when the send to one client raises inside broadcast, every other OPEN
\* client still receives the event, and the publisher sees no error.
C9_SendFailureIsolated ==
  [][\A r \in Reqs :
       (PublishStep(r) /\ req'[r].sendFailed # 0)
       => /\ \A o \in Obs \ {req'[r].sendFailed} :
                readyState[o] = "OPEN"
                => inbox'[o] = Append(inbox[o], req'[r].emitted[1])
          /\ "error" \notin {req'[r].log[i] : i \in 1..Len(req'[r].log)}
          /\ ~req'[r].unhandled]_vars

\* C10: broadcast delivers the event to every client that connected before the
\* call and is OPEN, and to no client that is closing, closed or not yet
\* connected (a client whose own send raised is left out: no publisher can
\* deliver to it).
C10_PublishReachesOpenObservers ==
  [][\A r \in Reqs :
       PublishStep(r)
       => \A o \in Obs \ {req'[r].sendFailed} :
            inbox'[o] = IF readyState[o] = "OPEN"
                        THEN Append(inbox[o], req'[r].emitted[1])
                        ELSE inbox[o]]_vars

\* C11: a connecting client receives the welcome message and no other client
\* does; the welcome message is the first message of every client that has
\* connected, whatever events requests running at the time publish, and a
\* client that has not connected has received nothing.
C11_WelcomeFirst ==
  \A o \in Obs :
    IF readyState[o] = "NEW" THEN inbox[o] = <<>>
    ELSE /\ inbox[o] # <<>>
         /\ inbox[o][1] = WelcomeMessage
         /\ \A i \in 2..Len(inbox[o]) : inbox[o][i].type # "welcome"

C11_WelcomeOnlyNew ==
  \A o \in Obs :
    (readyState[o] = "NEW" /\ readyState'[o] # "NEW")
    => /\ inbox'[o] = <<WelcomeMessage>>
       /\ \A p \in Obs \ {o} : inbox'[p] = inbox[p]

C11_SubscribeWelcome == []C11_WelcomeFirst /\ [][C11_WelcomeOnlyNew]_vars

\* a client connected after another one had received an event, while a job
\* update was between its statements, and then received that update's event
C11_Witness ==
  \E o \in Obs, p \in Obs :
    /\ Len(inbox[p]) > Len(inbox[o])
    /\ Len(inbox[o]) >= 2
    /\ inbox[o][1] = WelcomeMessage
    /\ inbox[o][2].type = "job.updated"

\* the event types of the real-time documentation, and the handler of each
EventTypes == {"job.created", "job.updated", "invoice.created", "payment.created"}

TypeOfOp(op) ==
  CASE op = "postJobs" -> "job.created"
    [] op = "putJob" -> "job.updated"
    [] op \in {"postJobInvoice", "postInvoices"} -> "invoice.created"
    [] op = "postPayments" -> "payment.created"
    [] OTHER -> "none"

\* the key under which an event of the type carries its entity, and the entity
EntityKey(type) ==
  CASE type = "invoice.created" -> "invoice"
    [] type = "payment.created" -> "payment"
    [] OTHER -> "job"

Entity(m) ==
  CASE "invoice" \in m.keys -> m.invoice
    [] "payment" \in m.keys -> m.payment
    [] OTHER -> m.job

\* the events handed to broadcast so far by the requests in the slots
Emitted == UNION {{req[r].emitted[i] : i \in 1..Len(req[r].emitted)} : r \in Reqs}

CalcDone(r, op) == calc[r].op = op /\ calc[r].pc = "done"

\* the one response of a pricing request
CalcResp(r) == calc[r].resp[1]

\* a line that carries an item_id and a quantity
WellFormed(e) == e.item_id # 0 /\ e.quantity # NoQuantity

\* the version rows of the item that were in force when a line was resolved
InForce(t) ==
  {v \in t.versions : v.item_id = t.item.id /\ v.effective_at <= t.asOf}

\* C13: every resolution uses the labour rate and parts cost of a version row
\* of the item with the greatest effective_at among those with effective_at
\* <= NOW(), never a row with effective_at > NOW(); when there is no such row
\* it uses the item's own labour rate, parts cost and tier.
C13_LatestEffectiveVersion ==
  \A r \in Reqs : \A k \in 1..Len(calc[r].trace) :
    LET t == calc[r].trace[k] IN
    calc[r].op = "calculate"
    => IF InForce(t) = {}
       THEN /\ t.version = <<>>
            /\ t.line.labourRate = t.item.labour_rate
            /\ t.line.partsCost = t.item.parts_cost
            /\ ~Truthy(calc[r].lines[k].price_tier)
               => t.line.selectedTier =
                    IF Truthy(t.item.price_tier) THEN t.item.price_tier ELSE "good"
       ELSE /\ t.version # <<>>
            /\ t.version[1] \in InForce(t)
            /\ \A w \in InForce(t) : w.effective_at <= t.version[1].effective_at
            /\ t.line.labourRate = t.version[1].labour_rate
            /\ t.line.partsCost = t.version[1].parts_cost

\* a resolution between two versions: one in force and used, one still to come
C13_Witness ==
  \E r \in Reqs :
    /\ CalcDone(r, "calculate")
    /\ Len(calc[r].trace) = 1
    /\ calc[r].trace[1].version # <<>>
    /\ calc[r].trace[1].version[1].effective_at <= calc[r].trace[1].asOf
    /\ \E w \in calc[r].trace[1].versions : w.effective_at > calc[r].trace[1].asOf

\* C14: two resolutions of the same item at the same time against the same
\* version rows select the same version row.
C14_TieDeterministic ==
  \A r1 \in Pair, r2 \in Pair :
    (/\ CalcDone(r1, "calculate") /\ CalcDone(r2, "calculate")
     /\ Len(calc[r1].trace) = 1 /\ Len(calc[r2].trace) = 1
     /\ calc[r1].trace[1].item = calc[r2].trace[1].item
     /\ calc[r1].trace[1].asOf = calc[r2].trace[1].asOf
     /\ calc[r1].trace[1].versions = calc[r2].trace[1].versions)
    => calc[r1].trace[1].version = calc[r2].trace[1].version

\* the factor of the markup table for a tier, 1.0 for any other string
TableFactor(tier) ==
  CASE tier = "better" -> Literal(115, 100)
    [] tier = "best" -> Literal(125, 100)
    [] OTHER -> Literal(100, 100)

\* C15: the tier of a priced line is the line's tier when given, else the
\* selected version's tier when it has one, else the item's tier, else
\* 'good'; the markup factor is the number 1.0, 1.15 or 1.25 of that tier and
\* the number 1.0 for every other tier string.
C15_TierAndMarkup ==
  \A r \in Reqs : \A k \in 1..Len(calc[r].trace) :
    LET t == calc[r].trace[k]
        e == calc[r].lines[k]
        resolved == IF t.version # <<>> /\ Truthy(t.version[1].price_tier)
                    THEN t.version[1].price_tier ELSE t.item.price_tier
        tier == IF Truthy(e.price_tier) THEN e.price_tier
                ELSE IF Truthy(resolved) THEN resolved ELSE "good"
    IN calc[r].op = "calculate"
       => /\ t.line.selectedTier = tier
          /\ t.line.markupFactor = [kind |-> "number", v |-> TableFactor(tier)]

\* the markup factor of a tier in hundredths
Percent(tier) ==
  CASE tier = "better" -> 115
    [] tier = "best" -> 125
    [] OTHER -> 100

\* the sum of the line totals of the first k priced lines
RECURSIVE SumTotals(_, _)
SumTotals(trace, k) ==
  IF k = 0 THEN <<>>
  ELSE AddDigits(SumTotals(trace, k - 1), trace[k].line.lineTotal.n, 0)

\* C16: in every result of calculate whose markup factors are numbers, each
\* unit price is exactly (labour rate + parts cost) * markup factor, each line
\* total exactly unit price * quantity, and the total exactly the sum of the
\* line totals, as the response carries them (for labour rate 60, parts cost
\* 40, tier 'better' and quantity 2: 115.0, 230.0 and 230.0).
C16_ExactPrices ==
  \A r \in Reqs :
    (/\ CalcDone(r, "calculate")
     /\ CalcResp(r).code = 200
     /\ \A k \in 1..Len(calc[r].trace) : calc[r].trace[k].line.markupFactor.kind = "number")
    => /\ \A k \in 1..Len(calc[r].trace) :
            LET l == calc[r].trace[k].line
                e == calc[r].lines[k]
            IN /\ Trim(MulSmall(l.unitPrice.n, 100, 0))
                    = FromInt((l.labourRate + l.partsCost) * Percent(l.selectedTier)).n
               /\ l.lineTotal.n = Trim(MulSmall(l.unitPrice.n, e.quantity, 0))
               /\ CalcResp(r).items[k].unit_price = JsonNumber(l.unitPrice)
               /\ CalcResp(r).items[k].total_price = JsonNumber(l.lineTotal)
       /\ CalcResp(r).total_amount
            = JsonNumber(Num(SumTotals(calc[r].trace, Len(calc[r].trace))))

\* C17: a calculate request whose lines all carry item_id and quantity and one
\* of which names an item that does not exist answers NotFound (404) without a
\* total or a breakdown, wherever the line stands (storage failures aside).
C17_MissingItemNotFound ==
  \A r \in Reqs :
    (/\ CalcDone(r, "calculate")
     /\ \A k \in 1..Len(calc[r].lines) : WellFormed(calc[r].lines[k])
     /\ \E k \in 1..Len(calc[r].lines) : calc[r].lines[k].item_id \notin DOMAIN items
     /\ CalcResp(r).code # 500)
    => /\ CalcResp(r).code = 404
       /\ CalcResp(r).items = <<>>
       /\ CalcResp(r).total_amount = JsonNumber(FromInt(0))

\* the two validation errors of the pricing handlers
ValidationErrors ==
  {"items array is required", "Each item must include item_id and quantity"}

\* C18: a calculate request with no lines, or with a line that lacks item_id
\* or quantity, answers a validation error (400), whatever its other lines
\* are; a request whose lines are all well-formed, quantity 0 included, and
\* name existing items passes validation (storage failures aside).
C18_ValidationFirst ==
  \A r \in Reqs :
    CalcDone(r, "calculate")
    => /\ (/\ \/ calc[r].lines = <<>>
              \/ \E k \in 1..Len(calc[r].lines) : ~WellFormed(calc[r].lines[k])
           /\ CalcResp(r).code # 500)
          => /\ CalcResp(r).code = 400
             /\ CalcResp(r).error \in ValidationErrors
       /\ (/\ calc[r].lines # <<>>
           /\ \A k \in 1..Len(calc[r].lines) :
                WellFormed(calc[r].lines[k]) /\ calc[r].lines[k].item_id \in DOMAIN items
           /\ CalcResp(r).code # 500)
          => CalcResp(r).code = 200

\* C19: two calculate requests with the same lines that found the same item
\* row and the same version rows return the same response.
C19_Idempotent ==
  \A r1 \in Pair, r2 \in Pair :
    (/\ CalcDone(r1, "calculate") /\ CalcDone(r2, "calculate")
     /\ calc[r1].lines = calc[r2].lines
     /\ Len(calc[r1].trace) = 1 /\ Len(calc[r2].trace) = 1
     /\ calc[r1].trace[1].item = calc[r2].trace[1].item
     /\ calc[r1].trace[1].versions = calc[r2].trace[1].versions)
    => calc[r1].resp = calc[r2].resp

\* the sum over the lines of (base labour rate + base parts cost) * quantity
RECURSIVE BaseSum(_)
BaseSum(lines) ==
  IF lines = <<>> THEN 0
  ELSE LET e == lines[1] IN
       (items[e.item_id].labour_rate + items[e.item_id].parts_cost) * e.quantity
       + BaseSum(Tail(lines))

Updated(r) == Finished(r) /\ req[r].op = "putJob" /\ req[r].committed

\* C21: a job update with a status t of the four on an existing job in any
\* status s sets the job's status to t when the UPDATE statement runs, and the
\* update answers 200 with the job in status t, whatever s and t are.
C21_Answered ==
  \A r \in Reqs :
    (Updated(r) /\ req[r].body.status \in Statuses)
    => /\ req[r].prevStatus \in Statuses
       /\ req[r].resp = Sent(200, req[r].rows)
       /\ req[r].rows[1].status = req[r].body.status
       /\ jobs[req[r].id].status = req[r].body.status

C21_Set ==
  \A r \in Reqs :
    (/\ req[r].pc = "updateJob"
     /\ req[r].id \in DOMAIN jobs
     /\ req[r].body.status \in Statuses
     /\ \E f \in FailChoices : PutJobUpdate(r, TRUE, f))
    => /\ req'[r].committed
       /\ jobs'[req[r].id].status = req[r].body.status

C21_AnyTransition == []C21_Answered /\ [][C21_Set]_vars

\* a cancelled job was set to 'completed'
C21_Witness ==
  \E r \in Reqs :
    /\ Updated(r)
    /\ req[r].prevStatus = "cancelled"
    /\ req[r].body.status = "completed"
    /\ req[r].resp = Sent(200, req[r].rows)
    /\ jobs[req[r].id].status = "completed"

\* a status value outside the four (a missing status is no status value)
InvalidStatus(s) == s \notin Statuses /\ s \notin {Undefined, Null}

\* C22: every stored job has one of the four statuses; a job creation or job
\* update that carries any other status value is answered with an error (400
\* from the handler's check, 500 when the CHECK constraint of the table
\* refuses the UPDATE, 404 for a missing job), writes no job and publishes no
\* event.
C22_Closed ==
  /\ \A id \in DOMAIN jobs : jobs[id].status \in Statuses
  /\ \A r \in Reqs :
       (Finished(r) /\ req[r].op \in {"postJobs", "putJob"}
          /\ InvalidStatus(req[r].body.status))
       => /\ req[r].resp # <<>>
          /\ req[r].resp[1].code \in {400, 404, 500}
          /\ ~req[r].committed
          /\ req[r].emitted = <<>>

C22_NoWrite ==
  \A r \in Reqs :
    (req'[r] # req[r] /\ InvalidStatus(req'[r].body.status)) => UNCHANGED <<jobs, history>>

C22_StatusEnumeration == []C22_Closed /\ [][C22_NoWrite]_vars

\* an update of an existing job with a status outside the four was refused
C22_Witness ==
  \E r \in Reqs :
    /\ Finished(r)
    /\ req[r].op = "putJob"
    /\ req[r].prevStatus \in Statuses
    /\ req[r].body.status = "bogus"
    /\ req[r].resp = Sent(500, <<>>)
    /\ req[r].id \in DOMAIN jobs

\* C23: the service_history row a job update into 'completed' inserts has
\* the id of the updated job, the customer the job has after the UPDATE
\* statement (the patch's customer when it gives one, else the stored one),
\* the clock's time at the insert, and the notes of the patch, or NULL when
\* the patch gives none: the job's stored notes are not copied.
C23_Row ==
  \A r \in Reqs :
    (req[r].pc = "insertHistory" /\ req'[r].pc = "done" /\ req'[r].inserted)
    => \E x \in history' :
         /\ history' = history \cup {x}
         /\ x \notin history
         /\ x.job_id = req[r].id
         /\ x.customer_id = IF req[r].body.customer_id \in {Undefined, Null}
                            THEN req[r].before[1].customer_id
                            ELSE req[r].body.customer_id
         /\ x.customer_id = req[r].rows[1].customer_id
         /\ x.performed_at = Timestamp(now)
         /\ x.notes = IF Truthy(req[r].body.notes) THEN req[r].body.notes ELSE Null

C23_HistoryRecordFields == [][C23_Row]_vars

\* a row without notes for a job with stored notes, inserted after time passed
C23_Witness ==
  \E r \in Reqs : \E x \in history :
    /\ Updated(r)
    /\ req[r].inserted
    /\ x.auto
    /\ x.job_id = req[r].id
    /\ x.notes = Null
    /\ jobs[x.job_id].notes = "n0"
    /\ x.performed_at = Timestamp(1)

\* ---- authentication
\* the one response of an auth request
AuthResp(r) == auth[r].resp[1]

\* a login ends in slot r in this step
LoginStep(r) == auth'[r] # auth[r] /\ auth'[r].op = "login" /\ auth'[r].pc = "done"

\* C24: once a registration with an email and a password has answered 201 and
\* while its user row exists, a login with that email and password and no
\* MFA code answers 200 with a token of that user if the user has not enabled
\* MFA (storage failures aside), and a login with that email and another
\* password is refused without a token.
C24_Login ==
  \A r \in Reqs : \A g \in registered :
    (LoginStep(r) /\ g.id \in DOMAIN users /\ auth'[r].email = g.email)
    => /\ (/\ auth'[r].password = g.password
           /\ auth'[r].code = NoCode
           /\ ~users[g.id].mfa_enabled
           /\ auth'[r].resp[1].code # 500)
          => auth'[r].resp = <<[code |-> 200, token |-> <<Payload(users[g.id])>>]>>
       /\ auth'[r].password # g.password
          => /\ auth'[r].resp[1].code \in {400, 401, 500}
             /\ auth'[r].resp[1].token = <<>>

C24_RegisterThenLogin == [][C24_Login]_vars

\* a registered user without MFA has logged in
C24_Witness ==
  \E r \in Reqs : \E g \in registered :
    /\ auth[r].op = "login"
    /\ auth[r].pc = "done"
    /\ auth[r].email = g.email
    /\ auth[r].password = g.password
    /\ g.id \in DOMAIN users
    /\ ~users[g.id].mfa_enabled
    /\ AuthResp(r) = [code |-> 200, token |-> <<Payload(users[g.id])>>]

\* the code is the one-time code of the secret at step t or a neighbouring step
ValidCode(secret, code, t) ==
  /\ code.kind = "digits"
  /\ code.secret = secret
  /\ code.step >= t - 1
  /\ code.step <= t + 1

\* a login for the email of a user with MFA enabled ends in slot r in this
\* step, without a code or with a code that is not valid for the stored secret
MfaLoginRefused(r, id) ==
  /\ LoginStep(r)
  /\ id \in UsersByEmail(auth'[r].email)
  /\ users[id].mfa_enabled
  /\ ~ValidCode(users[id].mfa_secret, auth'[r].code, now)
  /\ auth'[r].resp[1].code # 500

\* a login with the right password and no code for a user without MFA
PlainLogin(r, id) ==
  /\ LoginStep(r)
  /\ id \in UsersByEmail(auth'[r].email)
  /\ ~users[id].mfa_enabled
  /\ auth'[r].code = NoCode
  /\ \E g \in registered : g.id = id /\ g.password = auth'[r].password
  /\ auth'[r].resp[1].code # 500

\* C25 as stated: for a user with MFA enabled every login without a code or
\* with a code not valid for the stored secret answers 401 without a token,
\* whatever the password; for a user without MFA no code is needed (storage
\* failures aside).
C25_Refused401 ==
  \A r \in Reqs : \A id \in 1..MaxUsers :
    /\ MfaLoginRefused(r, id) => auth'[r].resp = <<[code |-> 401, token |-> <<>>]>>
    /\ PlainLogin(r, id) => auth'[r].resp[1].code = 200

C25_Refused ==
  \A r \in Reqs : \A id \in 1..MaxUsers :
    /\ MfaLoginRefused(r, id)
       => auth'[r].resp =
            <<[code |-> IF auth'[r].password = "" \/ auth'[r].code.kind = "text"
                        THEN 400 ELSE 401,
               token |-> <<>>]>>
    /\ PlainLogin(r, id) => auth'[r].resp[1].code = 200

C30_Step ==
  \A id \in DOMAIN users \cap DOMAIN users' :
    /\ (~users[id].mfa_enabled /\ users'[id].mfa_enabled)
       => \E r \in Reqs :
            /\ auth[r].op = "verifyMfa"
            /\ auth[r].pc = "enable"
            /\ auth'[r].pc = "done"
            /\ auth[r].user = id
            /\ ValidCode(users[id].mfa_secret, auth[r].code, auth[r].at)
    /\ users[id].mfa_enabled
       => /\ users'[id].mfa_enabled
          /\ users'[id].mfa_secret = users[id].mfa_secret

C30_MfaStateMonotone == [][C30_Step]_vars

\* the request of slot r takes a step
PricingStep(r) == calc'[r] # calc[r]

\* C26: every step of a pricing request (calculate or estimate, whatever it
\* answers) changes nothing but that request: items, rate versions, jobs and
\* service-history records stay as they are, no event is emitted or delivered,
\* and the other pricing requests in progress are untouched; so two finished
\* requests of the same kind with the same input over the same tables have
\* the same result, however they were interleaved (storage failures aside).
C26_Frame ==
  \A r \in Reqs :
    PricingStep(r) =>
      /\ UNCHANGED <<items, versions, nextVersionId, jobs, history, nextHistId>>
      /\ UNCHANGED <<inbox, req>>
      /\ \A q \in Reqs \ {r} : calc'[q] = calc[q]

C26_SameResult ==
  \A r \in Pair, q \in Pair :
    ( /\ calc[r].pc = "done" /\ calc[q].pc = "done"
      /\ calc[r].op = calc[q].op
      /\ calc[r].jobId = calc[q].jobId
      /\ calc[r].lines = calc[q].lines
      /\ CalcResp(r).code # 500 /\ CalcResp(q).code # 500 )
    => CalcResp(r) = CalcResp(q)

C26_PricingReadOnly == []C26_SameResult /\ [][C26_Frame]_vars

\* an estimate has priced its first line while a calculate is between its
\* two queries
C26_Witness ==
  /\ calc[1].op = "calculate" /\ calc[1].pc = "selectVersion"
  /\ calc[2].op = "estimate" /\ calc[2].pc = "selectItem" /\ calc[2].i = 2

\* C27: a job update that has finished, whatever ran between its statements
\* (a delete of the same job included), has never answered success without a
\* job record, and every job.updated event it handed to broadcast carries a
\* job record.
C27_UpdateVsDelete ==
  \A r \in Reqs :
    (req[r].op = "putJob" /\ Finished(r)) =>
      /\ \A k \in 1..Len(req[r].resp) :
           req[r].resp[k].code = 200 => req[r].resp[k].body # <<>>
      /\ \A k \in 1..Len(req[r].emitted) :
           /\ "job" \in req[r].emitted[k].keys
           /\ req[r].emitted[k].job # <<>>

\* C28: the step that creates a job inserts no service_history row, whatever
\* the status it is created in, and a step inserts an automatic row for a job
\* only as part of an update of that job to 'completed' which read the job in
\* another status; so a job created 'completed' has no automatic row for as
\* long as every update finds it 'completed'.
C28_Step ==
  \A id \in JobIds :
    /\ (id \notin DOMAIN jobs /\ id \in DOMAIN jobs')
       => /\ history' = history
          /\ {h \in history' : h.job_id = id} = {}
    /\ {h \in history' : h.job_id = id /\ h.auto} \ history # {}
       => \E r \in Reqs :
            /\ req[r].op = "putJob"
            /\ req[r].id = id
            /\ req[r].body.status = "completed"
            /\ req[r].prevStatus # "completed"

C28_CreationRecordsNothing == [][C28_Step]_vars

\* job 2 was created 'completed' and an update to 'completed' of it has
\* finished: it has no service_history row
C28_Witness ==
  /\ req[1].op = "putJob"
  /\ Finished(1)
  /\ req[1].id = 2
  /\ req[1].body.status = "completed"
  /\ req[1].prevStatus = "completed"
  /\ req[1].committed
  /\ 2 \in DOMAIN jobs
  /\ jobs[2].status = "completed"
  /\ HistoryOf(2) = {}

\* no line of the list gives a tier
NoLineTier(lines) == \A k \in 1..Len(lines) : ~Truthy(lines[k].price_tier)

\* no item of the list has a version row with effective_at <= now, and the
\* tier of every item of the list is absent or 'good'
BaseRatesInForce(lines) ==
  \A k \in 1..Len(lines) :
    /\ lines[k].item_id \in DOMAIN items
    /\ \A v \in versions : v.item_id = lines[k].item_id => v.effective_at > now
    /\ items[lines[k].item_id].price_tier \in {Null, "good"}

\* C29: a calculate and an estimate (of an existing job) that both answered
\* 200 for the same list of lines, none of which gives a tier, while no item
\* of the list has a version in force and every item's tier is absent or
\* 'good', report the same total and, line by line, the same unit price and
\* line total.
C29_CalculateEstimateAgree ==
  \A r \in Pair, q \in Pair :
    ( /\ CalcDone(r, "calculate") /\ CalcDone(q, "estimate")
      /\ CalcResp(r).code = 200 /\ CalcResp(q).code = 200
      /\ calc[r].lines = calc[q].lines
      /\ NoLineTier(calc[r].lines)
      /\ BaseRatesInForce(calc[r].lines) )
    => /\ CalcResp(r).total_amount = CalcResp(q).total_amount
       /\ Len(CalcResp(r).items) = Len(CalcResp(q).items)
       /\ \A k \in 1..Len(CalcResp(r).items) :
            /\ CalcResp(r).items[k].unit_price = CalcResp(q).items[k].unit_price
            /\ CalcResp(r).items[k].total_price = CalcResp(q).items[k].total_price

\* both have priced the same two lines of an item of tier 'good' that has a
\* version not yet in force
C29_Witness ==
  /\ CalcDone(1, "calculate") /\ CalcDone(2, "estimate")
  /\ CalcResp(1).code = 200 /\ CalcResp(2).code = 200
  /\ calc[1].lines = calc[2].lines
  /\ Len(calc[1].lines) = 2
  /\ NoLineTier(calc[1].lines)
  /\ BaseRatesInForce(calc[1].lines)
  /\ items[1].price_tier = "good"
  /\ versions # {}
  /\ ~CalcResp(1).total_amount.null

====
